---- MODULE Spec2Model ----
(***************************************************************************)
(* tmm: the run / keys commands, the settle detector                       *)
(* (executeAndPrintPaneDiff) and the output differ (diffLines).            *)
(*                                                                         *)
(* Text is modelled as sequences of one-character strings, so that         *)
(* splitting, joining, trimming and quoting are computed character by      *)
(* character the way the JavaScript string methods compute them.           *)
(* Time is Date.now() in milliseconds.                                     *)
(***************************************************************************)
EXTENDS Integers, Sequences, FiniteSets, TLC

(***************************************************************************)
(* Bounds of the model.                                                    *)
(***************************************************************************)
\* Date.now() when the invocation starts (any positive epoch time).
T0 == 1000
\* An external call returns after k poll intervals, k in 0..MaxLatencyTicks.
MaxLatencyTicks == 1
\* Lines the programs in the pane write while the invocation runs.
MaxPaneWrites == 1
\* Arguments after the session name.
MaxRest == 2
\* Lines of a snapshot handed to the differ.
MaxSnapLines == 3
\* The longest argument of the command lines built, besides three longer ones.
MaxWordLen == 1
\* The most arguments a built command line is made from.
MaxCommandArgs == 2
\* How many sends another invocation makes beside this one.
MaxPeerSends == 1

(***************************************************************************)
(* Program constants.                                                      *)
(***************************************************************************)
timeoutMs == 5000
stableMs == 500
graceMs == 250
pollMs == 100
boundaryWidth == 40
EXIT_OK == 0
EXIT_FAIL == 1
EXIT_TIMEOUT == 124

(***************************************************************************)
(* Characters and text.                                                    *)
(***************************************************************************)
NL == "\n"
CR == "\r"
SP == " "
SQ == "'"
DQ == "\""

\* The characters String.prototype.trimEnd removes.
IsWhiteSpace(c) == c \in {SP, NL, CR, "\t"}

RECURSIVE Concat(_)
\* Concatenation of a sequence of texts.
Concat(ts) == IF ts = <<>> THEN <<>> ELSE Head(ts) \o Concat(Tail(ts))

RECURSIVE Repeat(_, _)
\* String.prototype.repeat
Repeat(t, n) == IF n <= 0 THEN <<>> ELSE t \o Repeat(t, n - 1)

Max(a, b) == IF a >= b THEN a ELSE b

RECURSIVE SplitAcc(_, _, _, _)
\* String.prototype.split(sep) for a one-character separator: cur is the piece
\* being read, acc the pieces read.
SplitAcc(s, sep, cur, acc) ==
  IF s = <<>> THEN Append(acc, cur)
  ELSE IF Head(s) = sep THEN SplitAcc(Tail(s), sep, <<>>, Append(acc, cur))
  ELSE SplitAcc(Tail(s), sep, Append(cur, Head(s)), acc)

Split(s, sep) == SplitAcc(s, sep, <<>>, <<>>)

RECURSIVE Join(_, _)
\* Array.prototype.join(sep)
Join(ls, sep) ==
  IF ls = <<>> THEN <<>>
  ELSE IF Len(ls) = 1 THEN ls[1]
  ELSE ls[1] \o sep \o Join(Tail(ls), sep)

RECURSIVE TrimEnd(_)
\* String.prototype.trimEnd
TrimEnd(s) ==
  IF s = <<>> THEN <<>>
  ELSE IF IsWhiteSpace(s[Len(s)]) THEN TrimEnd(SubSeq(s, 1, Len(s) - 1))
  ELSE s

RECURSIVE TrimStart(_)
TrimStart(s) ==
  IF s = <<>> THEN <<>>
  ELSE IF IsWhiteSpace(Head(s)) THEN TrimStart(Tail(s))
  ELSE s

\* String.prototype.trim
Trim(s) == TrimEnd(TrimStart(s))

RECURSIVE RemoveAll(_, _)
\* String.prototype.replaceAll(c, "")
RemoveAll(s, c) ==
  IF s = <<>> THEN <<>>
  ELSE IF Head(s) = c THEN RemoveAll(Tail(s), c)
  ELSE <<Head(s)>> \o RemoveAll(Tail(s), c)

(***************************************************************************)
(* The output differ.                                                      *)
(***************************************************************************)
\* A split that gives the empty string one empty line.
splitLines_KeepsEmpty(value) == Split(value, NL)

splitLines(value) == IF value = <<>> THEN <<>> ELSE Split(value, NL)

RECURSIVE DiffWalk_BreaksOnEqual(_, _, _)
\* The walk with its comparison inverted: it stops at the first equal pair.
DiffWalk_BreaksOnEqual(beforeLines, afterLines, idx) ==
  IF idx < Len(beforeLines) /\ idx < Len(afterLines)
     /\ beforeLines[idx + 1] # afterLines[idx + 1]
  THEN DiffWalk_BreaksOnEqual(beforeLines, afterLines, idx + 1)
  ELSE idx

RECURSIVE DiffWalk(_, _, _)
\* The while loop of diffLines: idx counts the equal leading lines.
DiffWalk(beforeLines, afterLines, idx) ==
  IF idx < Len(beforeLines) /\ idx < Len(afterLines)
     /\ beforeLines[idx + 1] = afterLines[idx + 1]
  THEN DiffWalk(beforeLines, afterLines, idx + 1)
  ELSE idx

\* A differ that reports every line of the after snapshot.
diffLines_NoPrefix(before, after) == TrimEnd(Join(splitLines(after), <<NL>>))

\* A differ that does not trim its result.
diffLines_NoTrim(before, after) ==
  LET afterLines == splitLines(after)
      idx == DiffWalk(splitLines(before), afterLines, 0)
  IN Join(SubSeq(afterLines, idx + 1, Len(afterLines)), <<NL>>)

diffLines(before, after) ==
  LET beforeLines == splitLines(before)
      afterLines == splitLines(after)
      idx == DiffWalk(beforeLines, afterLines, 0)
  IN TrimEnd(Join(SubSeq(afterLines, idx + 1, Len(afterLines)), <<NL>>))

(***************************************************************************)
(* Command-line tokens and messages.                                       *)
(***************************************************************************)
CMD_RUN == <<"r", "u", "n">>
CMD_KEYS == <<"k", "e", "y", "s">>
CMD_TAIL == <<"t", "a", "i", "l">>
TOK_SEP == <<"-", "-">>
TOK_H == <<"-", "h">>
TOK_HELP == <<"-", "-", "h", "e", "l", "p">>
TOK_LITERAL == <<"-", "l">>
KEY_CTRL_C == <<"C", "-", "c">>
KEY_SUBMIT == <<"C", "-", "m">>

namedCommands ==
  { <<"n", "e", "w">>, <<"r", "e", "n", "a", "m", "e">>, <<"e", "x", "i", "t">>,
    <<"r", "e", "m", "o", "v", "e">>, <<"l", "s">>, <<"w", "h", "i", "c", "h">>,
    CMD_RUN, CMD_TAIL, CMD_KEYS }

isHelpFlag(value) == value = TOK_H \/ value = TOK_HELP

isNamedCommand(value) == value \in namedCommands

\* A help flag that counts only in front of the "--" separator.
someHelpFlag_BeforeSeparator(rest) ==
  \E i \in 1..Len(rest) : /\ isHelpFlag(rest[i])
                          /\ \A j \in 1..(i - 1) : rest[j] # TOK_SEP

\* args.slice(1).some((arg) => isHelpFlag(arg))
someHelpFlag(rest) == \E i \in 1..Len(rest) : isHelpFlag(rest[i])

TIMEOUT_MESSAGE == <<"K", "e", "y", " ", "s", "e", "n", "d", " ", "t", "i", "m", "e", "d", " ", "o", "u", "t", " ", "a", "f", "t", "e", "r", " ", "5", "s", ";", " ", "s", "h", "o", "w", "i", "n", "g", " ", "o", "u", "t", "p", "u", "t", " ", "c", "a", "p", "t", "u", "r", "e", "d", " ", "s", "o", " ", "f", "a", "r", ".">>
MSG_NOT_FOUND == <<"S", "e", "s", "s", "i", "o", "n", " ", "n", "o", "t", " ", "f", "o", "u", "n", "d", ":", " ">>
MSG_NO_PANE == <<"C", "o", "u", "l", "d", " ", "n", "o", "t", " ", "r", "e", "s", "o", "l", "v", "e", " ", "a", "c", "t", "i", "v", "e", " ", "p", "a", "n", "e", " ", "f", "o", "r", " ", "s", "e", "s", "s", "i", "o", "n", ":", " ">>
\* Stands for the message of the error a failed send throws.
MSG_SEND_FAILED == <<"t", "m", "u", "x", " ", "s", "e", "n", "d", "-", "k", "e", "y", "s", " ", "f", "a", "i", "l", "e", "d">>
TMM_LABEL == <<"t", "m", "m", " ", "-", " ">>
END_LABEL == <<"E", "N", "D", " ", "-", " ">>

\* One console.log call.
Log(text) == [kind |-> "log", text |-> text]
\* printCommandHelp(target): the help text of one command, as one item.
printCommandHelp(target) == <<[kind |-> "help", text |-> target]>>

\* Array.prototype.indexOf, 0-based, -1 when absent.
IndexOf(seq, x) ==
  IF \E i \in 1..Len(seq) : seq[i] = x
  THEN (CHOOSE i \in 1..Len(seq) : seq[i] = x /\ \A j \in 1..(i - 1) : seq[j] # x) - 1
  ELSE -1

\* Array.prototype.slice(from), 0-based.
Slice(seq, from) == SubSeq(seq, from + 1, Len(seq))

(***************************************************************************)
(* Building the command line of run.                                       *)
(***************************************************************************)
RECURSIVE ReplaceQuotes(_)
\* value.replace(/'/g, `'"'"'`)
ReplaceQuotes(value) ==
  IF value = <<>> THEN <<>>
  ELSE IF Head(value) = SQ THEN <<SQ, DQ, SQ, DQ, SQ>> \o ReplaceQuotes(Tail(value))
  ELSE <<Head(value)>> \o ReplaceQuotes(Tail(value))

\* Quoting that leaves the single quotes inside the value as they are.
shellEscape_NoEscape(value) == <<SQ>> \o value \o <<SQ>>

shellEscape(value) == <<SQ>> \o ReplaceQuotes(value) \o <<SQ>>

buildRunCommand(commandArgs) ==
  IF Len(commandArgs) = 1 THEN commandArgs[1]
  ELSE Join([i \in 1..Len(commandArgs) |-> shellEscape(commandArgs[i])], <<SP>>)

(***************************************************************************)
(* Output framing.  The colour styling of kleur is left out; the fill      *)
(* characters of the two boundaries are written "v" and "^".               *)
(***************************************************************************)
formatRunBoundary(label, width, fillChar) ==
  LET padLength == Max(0, width - Len(label) - 1)
  IN IF padLength = 0 THEN label ELSE label \o <<SP>> \o Repeat(<<fillChar>>, padLength)

runHeader(sessionName) == formatRunBoundary(TMM_LABEL \o sessionName, boundaryWidth, "v")
runFooter(sessionName) == formatRunBoundary(END_LABEL \o sessionName, boundaryWidth, "^")

\* A printer that puts the advisory message after the header.
printSessionOutput_MessageInside(sessionName, output, topMessage) ==
  <<Log(runHeader(sessionName))>>
  \o (IF topMessage # <<>> THEN <<Log(topMessage)>> ELSE <<>>)
  \o (IF output # <<>> THEN <<Log(output)>> ELSE <<>>)
  \o <<Log(runFooter(sessionName))>>

\* The console.log calls of printSessionOutput; <<>> stands for an option that
\* is undefined (or the empty string, which the code treats the same).
printSessionOutput(sessionName, output, topMessage) ==
  (IF topMessage # <<>> THEN <<Log(topMessage)>> ELSE <<>>)
  \o <<Log(runHeader(sessionName))>>
  \o (IF output # <<>> THEN <<Log(output)>> ELSE <<>>)
  \o <<Log(runFooter(sessionName))>>

(***************************************************************************)
(* The multiplexer (tmux), as the code reaches it.                         *)
(***************************************************************************)
SESSION_A == <<"a">>
SESSION_UPPER_A == <<"A">>
SessionNames == {SESSION_A, SESSION_UPPER_A}
\* A session whose name holds the separator of the list-sessions format.
SESSION_A_BAR_B == <<"a", "|", "b">>
\* A second session, the target of another invocation.
SESSION_B == <<"b">>

FG_SHELL == <<"b", "a", "s", "h">>
FG_PROGRAM == <<"v", "i", "m">>
FgNames == {FG_SHELL, FG_PROGRAM}

LINE_TEXT == <<"a">>
\* What the pane holds when the invocation starts.
InitialPanes == { <<LINE_TEXT>> }
\* The lines a program in the pane may write.
PaneWriteLines == {LINE_TEXT}
\* The line a pane shows for the input another invocation sent to it.
PEER_LINE == <<"p">>

\* How long an external call may take.
Latencies == {k * pollMs : k \in 0..MaxLatencyTicks}

RECURSIVE SeqOfSet(_)
SeqOfSet(S) ==
  IF S = {} THEN <<>>
  ELSE LET x == CHOOSE y \in S : TRUE IN <<x>> \o SeqOfSet(S \ {x})

\* tmux list-sessions -F "#{session_name}|#{session_activity}"
listSessionsOutput(live) ==
  LET names == SeqOfSet(live)
  IN Concat([i \in 1..Len(names) |-> names[i] \o <<"|", "0", NL>>])

\* tmux capture-pane -p: every line of the pane followed by a newline.
capturePaneOutput(lines) == Concat([i \in 1..Len(lines) |-> lines[i] \o <<NL>>])

\* tmux display-message -p: the value followed by a newline.
displayMessageOutput(value) == value \o <<NL>>

\* The pane id tmux reports for the active pane of a session.
PaneOf(name) == <<"%">> \o name

\* getSessions, given what list-sessions printed ("" when it failed): the
\* names, in order (the labels are left out).
getSessions(raw) ==
  IF Trim(raw) = <<>> THEN <<>>
  ELSE LET lines == Split(Trim(raw), NL)
       IN [i \in 1..Len(lines) |-> Split(lines[i], "|")[1]]

findSessionByName(sessions, targetName) ==
  \E i \in 1..Len(sessions) : sessions[i] = targetName

\* A tool that acts on the first session's pane whatever session it was given.
getActivePaneId_FirstPane(raw) == PaneOf(SESSION_A)

\* getActivePaneId, given what display-message printed ("" when it failed).
getActivePaneId(raw) == Trim(raw)

\* capturePane, given what capture-pane printed.
capturePane(raw) == RemoveAll(raw, CR)

\* getPaneCurrentCommand, given what display-message printed ("" when it failed).
getPaneCurrentCommand(raw) == Trim(raw)

\* The external commands the code runs, as entries of the call log.
CALL_CURRENT_SESSION == "display-message #S"
CALL_LIST_SESSIONS == "list-sessions"
CALL_ACTIVE_PANE == "display-message #{pane_id}"
CALL_CURRENT_COMMAND == "display-message #{pane_current_command}"
CALL_CAPTURE == "capture-pane"
CALL_SEND_KEYS == "send-keys"
CALL_NEW_SESSION == "new-session"
CALL_SWITCH_CLIENT == "switch-client"
CALL_ATTACH == "attach"
\* One external call: the command, the argument that tells two calls of the
\* command apart (the -S start of a capture, the session of new-session,
\* attach and switch-client; <<>> otherwise), and whether it succeeded.
Call(cmd, arg, ok) == [cmd |-> cmd, arg |-> arg, ok |-> ok]
\* The start line run and keys capture from.
HISTORY_START == <<"-", "5", "0", "0", "0", "0">>

(***************************************************************************)
(* State.                                                                  *)
(***************************************************************************)
VARIABLES
  args,             \* process.argv.slice(2)
  liveSessions,     \* tmux: the names of the live sessions
  paneLines,        \* tmux: the lines of the target pane
  fg,               \* tmux: the pane's foreground command
  writes,           \* lines written to the pane so far
  now,              \* Date.now()
  pc,               \* the await the invocation is suspended at
  sessionName,      \* matched.name
  paneId,
  beforePane,
  shellCommand,
  deadline,
  startedAt,
  changedFromShell,
  lastShellSeenAt,
  timedOut,
  afterPane,
  diffOutput,
  out,              \* the console.log calls made, in order
  exitCode,         \* the argument of process.exit, -1 while running
  sent,             \* the send-keys calls issued, in order
  det,              \* the state of the settle detector
  sawBaseline,      \* some poll read the baseline command
  sawDeviation,     \* some poll read a command other than the baseline
  baselineSince,    \* when the unbroken run of baseline reads up to the last poll began, 0 if none
  pollFailed,       \* some poll's read of the foreground command failed
  endedAt,          \* Date.now() when the watch loop ended, 0 before
  actionBeganAt,    \* Date.now() when action() was called, 0 before
  snapBefore,       \* the pane's lines when the before capture read them
  snapAfter,        \* the pane's lines when the after capture read them
  calls,            \* the external calls made outside the watch loop's polls, in order
  attached,         \* tmux: the session the client was attached or switched to
  inTmux,           \* process.env.TMUX is set
  peer,             \* another invocation of the tool: its session, its sends, its program
  otherPane,        \* tmux: the lines and the foreground command of the second session's pane
  prev              \* what the previous invocation printed and did, <<>> if none

vars == <<args, liveSessions, paneLines, fg, writes, now, pc, sessionName, paneId,
          beforePane, shellCommand, deadline, startedAt, changedFromShell,
          lastShellSeenAt, timedOut, afterPane, diffOutput, out, exitCode, sent,
          det, sawBaseline, sawDeviation, baselineSince, pollFailed, endedAt, actionBeganAt,
          snapBefore, snapAfter,
          calls, attached, inTmux, peer, otherPane, prev>>

\* What only the open handler, a second invocation and another invocation change.
openVars == <<attached, inTmux, peer, otherPane, prev>>
envVars == <<liveSessions, paneLines, fg, writes>>
detVars == <<beforePane, shellCommand, deadline, startedAt, changedFromShell,
             lastShellSeenAt, timedOut, afterPane, diffOutput, det, sawBaseline,
             sawDeviation, baselineSince, pollFailed,
             endedAt, actionBeganAt, snapBefore, snapAfter>>

\* tmux -t <pane id>: the lines and the foreground command of the pane named.
PaneLines(id) == IF id = PaneOf(SESSION_B) THEN otherPane.lines ELSE paneLines
PaneCommand(id) == IF id = PaneOf(SESSION_B) THEN otherPane.fg ELSE fg

\* No other invocation, and no second session.
NoPeers ==
  /\ peer = [session |-> <<>>, sends |-> 0, running |-> FALSE]
  /\ otherPane = [lines |-> <<>>, fg |-> <<>>]

\* The argument lists tried: a command, a session name, and up to MaxRest more.
RestTokens == {TOK_SEP, TOK_H, KEY_CTRL_C}
RECURSIVE SeqsUpTo(_, _)
SeqsUpTo(S, n) ==
  IF n = 0 THEN {<<>>}
  ELSE LET shorter == SeqsUpTo(S, n - 1)
       IN shorter \cup {Append(q, x) : q \in {r \in shorter : Len(r) = n - 1}, x \in S}

RunKeysArgLists ==
  {<<c>> : c \in {CMD_RUN, CMD_KEYS}}
  \cup {<<c, n>> \o rest : c \in {CMD_RUN, CMD_KEYS}, n \in SessionNames,
                           rest \in SeqsUpTo(RestTokens, MaxRest)}

\* tail, a session name, and up to MaxRest more; and some longer lists whose
\* line counts parseInt reads in its less usual ways.
TailRestTokens == {<<"-", "l">>, <<"-", "-", "l", "i", "n", "e", "s">>,
                   <<"2">>, <<"0">>, <<"x">>, <<>>}
TailArgLists ==
  {<<CMD_TAIL>>}
  \cup {<<CMD_TAIL, n>> \o rest : n \in SessionNames, rest \in SeqsUpTo(TailRestTokens, MaxRest)}
  \cup {<<CMD_TAIL, SESSION_A, <<"-", "l">>, c>> :
          c \in {<<"1">>, <<"3">>, <<"1", "2">>, <<"2", "x">>, <<SP, "2">>, <<"+", "2">>,
                 <<"-", "1">>, <<"-", "h">>}}
  \cup {<<CMD_TAIL, SESSION_A, <<"-", "l">>, <<"1">>, <<"-", "-", "l", "i", "n", "e", "s">>, <<"2">>>>}

\* The argument lists the open handler gets: up to MaxRest + 1 of a session
\* name, -p, --present and two other arguments that start with "-".
OpenTokens == SessionNames \cup {<<"-", "p">>, <<"-", "-", "p", "r", "e", "s", "e", "n", "t">>,
                                 TOK_SEP, TOK_H}
OpenArgLists == SeqsUpTo(OpenTokens, MaxRest + 1) \ {<<>>}

\* tail with a help flag: alone, after the session, and where a line count
\* is expected.
TailHelpArgLists ==
  { <<CMD_TAIL, TOK_H>>, <<CMD_TAIL, SESSION_A, TOK_HELP>>,
    <<CMD_TAIL, SESSION_A, <<"-", "l">>, TOK_H>> }

ArgLists == RunKeysArgLists \cup TailArgLists \cup TailHelpArgLists \cup OpenArgLists

\* The argument lists tried together with a busy pane: the accepted forms of
\* run and keys, and one list for each way of being turned away.
MainArgLists ==
  { <<CMD_RUN, SESSION_A, TOK_SEP, KEY_CTRL_C>>,
    <<CMD_KEYS, SESSION_A, KEY_CTRL_C>>,
    <<CMD_RUN, SESSION_UPPER_A, TOK_SEP, KEY_CTRL_C>>,
    <<CMD_KEYS, SESSION_UPPER_A, KEY_CTRL_C>>,
    <<CMD_RUN, SESSION_A, KEY_CTRL_C>>,
    <<CMD_KEYS, SESSION_A>>,
    <<CMD_RUN, SESSION_A, TOK_SEP, TOK_H>>,
    <<CMD_KEYS, TOK_HELP>>,
    <<CMD_TAIL, SESSION_A>>,
    <<SESSION_A, <<"-", "p">>>> }

\* The locals of the run and keys handlers that are functions of args.
commandArgs == Slice(Slice(args, 1), IndexOf(Slice(args, 1), TOK_SEP) + 1)
commandText == buildRunCommand(commandArgs)
rawKeyTokens == Slice(Slice(args, 1), 1)
\* Key tokens with a submit added at the end.
keyTokens_WithSubmit ==
  (IF rawKeyTokens # <<>> /\ rawKeyTokens[1] = TOK_SEP THEN Slice(rawKeyTokens, 1)
   ELSE rawKeyTokens) \o <<KEY_SUBMIT>>
keyTokens ==
  IF rawKeyTokens # <<>> /\ rawKeyTokens[1] = TOK_SEP THEN Slice(rawKeyTokens, 1)
  ELSE rawKeyTokens

(***************************************************************************)
(* The arguments of tail.                                                  *)
(***************************************************************************)
TOK_L == <<"-", "l">>
TOK_LINES == <<"-", "-", "l", "i", "n", "e", "s">>
MSG_LINE_COUNT == <<"L", "i", "n", "e", " ", "c", "o", "u", "n", "t", " ", "m", "u", "s", "t", " ", "b", "e", " ", "a", " ", "p", "o", "s", "i", "t", "i", "v", "e", " ", "i", "n", "t", "e", "g", "e", "r">>
defaultLineCount == 10

DigitChars == <<"0", "1", "2", "3", "4", "5", "6", "7", "8", "9">>
IsDigit(c) == \E i \in 1..10 : DigitChars[i] = c
DigitVal(c) == (CHOOSE i \in 1..10 : DigitChars[i] = c) - 1

RECURSIVE DigitsValue(_, _)
\* The value of the longest prefix of str made of digits, after the digits
\* whose value is acc.
DigitsValue(str, acc) ==
  IF str = <<>> \/ ~IsDigit(Head(str)) THEN acc
  ELSE DigitsValue(Tail(str), 10 * acc + DigitVal(Head(str)))

\* Number.parseInt(value, 10): white space is skipped, a sign is read, then
\* digits up to the first character that is not one; NaN when there is none.
parseInt(value) ==
  LET t == TrimStart(value)
      signed == t # <<>> /\ Head(t) \in {"-", "+"}
      digits == IF signed THEN Tail(t) ELSE t
      magnitude == DigitsValue(digits, 0)
  IN IF digits = <<>> \/ ~IsDigit(Head(digits)) THEN [nan |-> TRUE, value |-> 0]
     ELSE [nan |-> FALSE,
           value |-> IF signed /\ Head(t) = "-" THEN 0 - magnitude ELSE magnitude]

RECURSIVE FormatInt(_)
\* `${n}` for an integer n >= 0
FormatInt(n) ==
  IF n < 10 THEN <<DigitChars[n + 1]>>
  ELSE FormatInt(n \div 10) \o <<DigitChars[(n % 10) + 1]>>

tailArgs == Slice(args, 1)

RECURSIVE tailScan_SkipsUnknown(_, _, _)
\* The loop passing over the arguments it does not know.
tailScan_SkipsUnknown(tArgs, i, lineCount) ==
  IF i >= Len(tArgs) THEN [end |-> "done", lineCount |-> lineCount]
  ELSE IF tArgs[i + 1] \in {TOK_L, TOK_LINES}
  THEN IF i + 1 >= Len(tArgs) \/ tArgs[i + 2] = <<>>
       THEN [end |-> "usage", lineCount |-> lineCount]
       ELSE LET parsed == parseInt(tArgs[i + 2])
            IN IF parsed.nan \/ parsed.value < 1
               THEN [end |-> "lineCount", lineCount |-> lineCount]
               ELSE tailScan_SkipsUnknown(tArgs, i + 2, parsed.value)
  ELSE tailScan_SkipsUnknown(tArgs, i + 1, lineCount)

RECURSIVE tailScan(_, _, _)
\* The for loop of the tail handler over tailArgs from index i (0-based) with
\* lineCount as read so far: how it ends, and the line count it ends with.
tailScan(tArgs, i, lineCount) ==
  IF i >= Len(tArgs) THEN [end |-> "done", lineCount |-> lineCount]
  ELSE IF tArgs[i + 1] \in {TOK_L, TOK_LINES}
  THEN IF i + 1 >= Len(tArgs) \/ tArgs[i + 2] = <<>>
       THEN [end |-> "usage", lineCount |-> lineCount]
       ELSE LET parsed == parseInt(tArgs[i + 2])
            IN IF parsed.nan \/ parsed.value < 1
               THEN [end |-> "lineCount", lineCount |-> lineCount]
               ELSE tailScan(tArgs, i + 2, parsed.value)
  ELSE [end |-> "usage", lineCount |-> lineCount]

tailParse ==
  IF tailArgs = <<>> THEN [end |-> "usage", lineCount |-> defaultLineCount]
  ELSE tailScan(tailArgs, 1, defaultLineCount)
\* A line count that stays at its default whatever -l says.
lineCount_IgnoresFlag == defaultLineCount

lineCount == tailParse.lineCount
\* `-${lineCount}`
tailStart == <<"-">> \o FormatInt(lineCount)

(***************************************************************************)
(* The arguments of the open handler.                                      *)
(***************************************************************************)
TOK_P == <<"-", "p">>
TOK_PRESENT == <<"-", "-", "p", "r", "e", "s", "e", "n", "t">>
MSG_CREATING == <<"c", "r", "e", "a", "t", "i", "n", "g", " ", "a", "n", "d", " ", "o", "p", "e", "n", "i", "n", "g", " ", "t", "m", "u", "x", " ", "s", "e", "s", "s", "i", "o", "n", " ">>
MSG_OPENING == <<"o", "p", "e", "n", "i", "n", "g", " ", "e", "x", "i", "s", "t", "i", "n", "g", " ", "t", "m", "u", "x", " ", "s", "e", "s", "s", "i", "o", "n", " ">>
CMD_OPEN == <<"o", "p", "e", "n">>

isPresentFlag(arg) == arg = TOK_P \/ arg = TOK_PRESENT
startsWithDash(arg) == arg # <<>> /\ Head(arg) = "-"
openOrCreate == \E i \in 1..Len(args) : isPresentFlag(args[i])
positionalArgs == SelectSeq(args, LAMBDA arg : ~isPresentFlag(arg))
\* Some argument other than -p/--present starts with "-": the loop prints the
\* help of open and exits.
openArgsRejected ==
  \/ \E i \in 1..Len(args) : ~isPresentFlag(args[i]) /\ startsWithDash(args[i])
  \/ Len(positionalArgs) # 1

TypeOK ==
  /\ pc \in {"start", "getSessions", "getPane", "captureBefore", "readBaseline",
             "sendLiteral", "sendSubmit", "sendKeys", "poll", "sleep",
             "captureAfter", "captureTail", "createSession", "openSession", "exit"}
  /\ det \in {"None", "Idle", "Mutating", "Watching", "Settled", "TimedOut"}
  /\ exitCode \in {-1, EXIT_OK, EXIT_FAIL, EXIT_TIMEOUT}
  /\ changedFromShell \in BOOLEAN /\ timedOut \in BOOLEAN /\ sawBaseline \in BOOLEAN
  /\ sawDeviation \in BOOLEAN /\ pollFailed \in BOOLEAN

InitDetector ==
  /\ beforePane = <<>> /\ shellCommand = <<>> /\ deadline = 0 /\ startedAt = 0
  /\ changedFromShell = FALSE /\ lastShellSeenAt = 0 /\ timedOut = TRUE
  /\ afterPane = <<>> /\ diffOutput = <<>> /\ det = "None" /\ sawBaseline = FALSE
  /\ sawDeviation = FALSE /\ baselineSince = 0 /\ pollFailed = FALSE
  /\ endedAt = 0 /\ actionBeganAt = 0 /\ snapBefore = <<>> /\ snapAfter = <<>>

\* The state when the process starts, for the argument list and the tmux
\* server it is started with.
StartWith(argLists, sessionSets, foregrounds, panes) ==
  /\ args \in argLists
  /\ liveSessions \in sessionSets
  /\ paneLines \in panes
  /\ fg \in foregrounds
  /\ writes = 0
  /\ now = T0
  /\ pc = "start"
  /\ sessionName = <<>> /\ paneId = <<>>
  /\ InitDetector
  /\ out = <<>> /\ exitCode = -1 /\ sent = <<>>
  /\ calls = <<>> /\ attached = <<>> /\ prev = <<>>

Start(argLists, sessionSets, foregrounds) ==
  /\ StartWith(argLists, sessionSets, foregrounds, InitialPanes)
  /\ inTmux = FALSE /\ NoPeers

Init == Start(MainArgLists, {{}, {SESSION_A}}, FgNames)

\* process.exit(code) after the console.log calls in items.
Exit(items, code) ==
  /\ out' = out \o items
  /\ exitCode' = code
  /\ pc' = "exit"

(***************************************************************************)
(* The invocation, one action per await.  Each action is the completion of *)
(* the pending call and the synchronous code that follows it, up to the    *)
(* next await or process.exit.                                             *)
(***************************************************************************)
printMainHelp == <<[kind |-> "help", text |-> <<>>]>>

\* Top-level code up to the first await: help handling and the argument
\* checks of the run and keys handlers.
Dispatch ==
  /\ pc = "start"
  /\ LET command == IF args = <<>> THEN <<>> ELSE args[1]
         rest == Slice(args, 1)
         proceed(name) == /\ sessionName' = name
                          /\ pc' = "getSessions"
                          /\ UNCHANGED <<out, exitCode>>
         usage(target) == Exit(printCommandHelp(target), EXIT_FAIL) /\ UNCHANGED sessionName
     IN IF isHelpFlag(command) THEN Exit(printMainHelp, EXIT_OK) /\ UNCHANGED sessionName
        ELSE IF isNamedCommand(command) /\ someHelpFlag(rest)
        THEN Exit(printCommandHelp(command), EXIT_OK) /\ UNCHANGED sessionName
        ELSE IF command = CMD_RUN
        THEN IF IndexOf(rest, TOK_SEP) # 1 \/ Len(rest) < 3 \/ commandArgs = <<>>
             THEN usage(CMD_RUN)
             ELSE proceed(rest[1])
        ELSE IF command = CMD_TAIL
        THEN IF tailParse.end = "usage" THEN usage(CMD_TAIL)
             ELSE IF tailParse.end = "lineCount"
             THEN Exit(<<Log(MSG_LINE_COUNT)>>, EXIT_FAIL) /\ UNCHANGED sessionName
             ELSE proceed(rest[1])
        ELSE IF command = CMD_KEYS
        THEN IF Len(rest) < 2 \/ keyTokens = <<>>
             THEN usage(CMD_KEYS)
             ELSE proceed(rest[1])
        ELSE IF openArgsRejected THEN usage(CMD_OPEN)
             ELSE proceed(positionalArgs[1])
  /\ UNCHANGED <<args, envVars, now, paneId, detVars, sent, calls, openVars>>

\* await getSessions(); findSessionByName.
ResolveSession ==
  /\ pc = "getSessions"
  /\ \E ok \in BOOLEAN :
       /\ calls' = calls
                   \o (IF inTmux THEN <<Call(CALL_CURRENT_SESSION, <<>>, TRUE)>> ELSE <<>>)
                   \o <<Call(CALL_LIST_SESSIONS, <<>>, ok)>>
       /\ LET raw == IF ok THEN listSessionsOutput(liveSessions) ELSE <<>>
              matched == findSessionByName(getSessions(raw), sessionName)
              notFound == Exit(<<Log(MSG_NOT_FOUND \o sessionName)>>, EXIT_FAIL)
          IN IF args[1] \in {CMD_RUN, CMD_TAIL, CMD_KEYS}
             THEN IF matched THEN pc' = "getPane" /\ UNCHANGED <<out, exitCode>>
                  ELSE notFound
             ELSE IF matched
             THEN /\ out' = out \o (IF openOrCreate THEN <<Log(MSG_OPENING \o sessionName)>>
                                    ELSE <<>>)
                  /\ pc' = "openSession"
                  /\ UNCHANGED exitCode
             ELSE IF openOrCreate
             THEN /\ out' = Append(out, Log(MSG_CREATING \o sessionName))
                  /\ pc' = "createSession"
                  /\ UNCHANGED exitCode
             ELSE notFound
  /\ UNCHANGED <<args, envVars, now, sessionName, paneId, detVars, sent, openVars>>

\* await getActivePaneId(matched.name); on success executeAndPrintPaneDiff is
\* entered and issues its first capture.
ResolvePane ==
  /\ pc = "getPane"
  /\ \E ok \in BOOLEAN :
       /\ calls' = Append(calls, Call(CALL_ACTIVE_PANE, <<>>, ok))
       /\ LET raw == IF ok THEN displayMessageOutput(PaneOf(sessionName)) ELSE <<>>
              id == getActivePaneId(raw)
          IN IF id = <<>>
             THEN /\ Exit(<<Log(MSG_NO_PANE \o sessionName)>>, EXIT_FAIL)
                  /\ UNCHANGED <<paneId, det>>
             ELSE /\ paneId' = id
                  /\ IF args[1] = CMD_TAIL
                     THEN pc' = "captureTail" /\ UNCHANGED det
                     ELSE pc' = "captureBefore" /\ det' = "Idle"
                  /\ UNCHANGED <<out, exitCode>>
  /\ UNCHANGED <<args, envVars, now, sessionName, sent, beforePane, shellCommand,
                 deadline, startedAt, changedFromShell, lastShellSeenAt, timedOut,
                 afterPane, diffOutput, sawBaseline, sawDeviation, baselineSince, pollFailed,
                 endedAt, actionBeganAt, snapBefore,
                 snapAfter, openVars>>

\* const beforePane = await capturePane(paneId, "-50000").catch(() => "")
CaptureBefore ==
  /\ pc = "captureBefore"
  /\ \E ok \in BOOLEAN :
       /\ beforePane' = IF ok THEN capturePane(capturePaneOutput(PaneLines(paneId))) ELSE <<>>
       /\ snapBefore' = IF ok THEN PaneLines(paneId) ELSE <<>>
       /\ calls' = Append(calls, Call(CALL_CAPTURE, HISTORY_START, ok))
  /\ pc' = "readBaseline"
  /\ UNCHANGED <<args, envVars, now, sessionName, paneId, sent, out, exitCode,
                 shellCommand, deadline, startedAt, changedFromShell, lastShellSeenAt,
                 timedOut, afterPane, diffOutput, det, sawBaseline, sawDeviation, baselineSince, pollFailed,
                 endedAt,
                 actionBeganAt, snapAfter>>
  /\ UNCHANGED openVars

\* A baseline taken to be the idle shell whatever the pane runs.
ReadBaseline_AssumesShell ==
  /\ pc = "readBaseline"
  /\ \E ok \in BOOLEAN :
       /\ shellCommand' = FG_SHELL
       /\ calls' = Append(calls, Call(CALL_CURRENT_COMMAND, <<>>, ok))
  /\ det' = "Mutating"
  /\ actionBeganAt' = now
  /\ pc' = IF args[1] = CMD_RUN THEN "sendLiteral" ELSE "sendKeys"
  /\ UNCHANGED <<args, envVars, now, sessionName, paneId, sent, out, exitCode,
                 beforePane, deadline, startedAt, changedFromShell, lastShellSeenAt,
                 timedOut, afterPane, diffOutput, sawBaseline, sawDeviation, baselineSince, pollFailed,
                 endedAt, snapBefore,
                 snapAfter>>
  /\ UNCHANGED openVars

\* const shellCommand = await getPaneCurrentCommand(paneId); action() is called.
ReadBaseline ==
  /\ pc = "readBaseline"
  /\ \E ok \in BOOLEAN :
       /\ shellCommand' = getPaneCurrentCommand(IF ok THEN displayMessageOutput(PaneCommand(paneId)) ELSE <<>>)
       /\ calls' = Append(calls, Call(CALL_CURRENT_COMMAND, <<>>, ok))
  /\ det' = "Mutating"
  /\ actionBeganAt' = now
  /\ pc' = IF args[1] = CMD_RUN THEN "sendLiteral" ELSE "sendKeys"
  /\ UNCHANGED <<args, envVars, now, sessionName, paneId, sent, out, exitCode,
                 beforePane, deadline, startedAt, changedFromShell, lastShellSeenAt,
                 timedOut, afterPane, diffOutput, sawBaseline, sawDeviation, baselineSince, pollFailed,
                 endedAt, snapBefore,
                 snapAfter>>
  /\ UNCHANGED openVars

\* One tmux send-keys call: the arguments after -t <pane>, and whether it succeeded.
SendCallTo(pane, keys, ok) == [pane |-> pane, keys |-> keys, ok |-> ok]
SendCall(keys, ok) == SendCallTo(paneId, keys, ok)

\* action() resolved at time t: the watch loop is set up and its first poll issued.
WatchStart(t) ==
  /\ deadline' = t + timeoutMs
  /\ startedAt' = t
  /\ changedFromShell' = FALSE
  /\ lastShellSeenAt' = 0
  /\ timedOut' = TRUE
  /\ det' = "Watching"
  /\ pc' = "poll"
  /\ UNCHANGED <<out, exitCode>>

\* action() threw: the handler's catch prints the message and exits 1.
ActionFailed ==
  /\ Exit(<<Log(MSG_SEND_FAILED)>>, EXIT_FAIL)
  /\ UNCHANGED <<deadline, startedAt, changedFromShell, lastShellSeenAt, timedOut, det>>

\* A literal send whose failure is swallowed: the submit follows regardless.
SendLiteral_IgnoresFailure ==
  /\ pc = "sendLiteral"
  /\ \E d \in Latencies, ok \in BOOLEAN :
       /\ now' = now + d
       /\ calls' = Append(calls, Call(CALL_SEND_KEYS, <<>>, ok))
       /\ sent' = Append(sent, SendCall(<<TOK_LITERAL, commandText>>, ok))
       /\ pc' = "sendSubmit"
  /\ UNCHANGED <<args, envVars, sessionName, paneId, out, exitCode, detVars>>
  /\ UNCHANGED openVars

\* run: await $`tmux send-keys -t ${paneId} -l ${commandText}`
SendLiteral ==
  /\ pc = "sendLiteral"
  /\ \E d \in Latencies, ok \in BOOLEAN :
       /\ now' = now + d
       /\ calls' = Append(calls, Call(CALL_SEND_KEYS, <<>>, ok))
       /\ sent' = Append(sent, SendCall(<<TOK_LITERAL, commandText>>, ok))
       /\ IF ok
          THEN /\ pc' = "sendSubmit"
               /\ UNCHANGED <<out, exitCode, deadline, startedAt, changedFromShell,
                              lastShellSeenAt, timedOut, det>>
          ELSE ActionFailed
  /\ UNCHANGED <<args, envVars, sessionName, paneId, beforePane, shellCommand,
                 afterPane, diffOutput, sawBaseline, sawDeviation, baselineSince, pollFailed,
                 endedAt, actionBeganAt, snapBefore, snapAfter>>
  /\ UNCHANGED openVars

\* run: await $`tmux send-keys -t ${paneId} C-m`
SendSubmit ==
  /\ pc = "sendSubmit"
  /\ \E d \in Latencies, ok \in BOOLEAN :
       /\ now' = now + d
       /\ calls' = Append(calls, Call(CALL_SEND_KEYS, <<>>, ok))
       /\ sent' = Append(sent, SendCall(<<KEY_SUBMIT>>, ok))
       /\ IF ok THEN WatchStart(now + d) ELSE ActionFailed
  /\ UNCHANGED <<args, envVars, sessionName, paneId, beforePane, shellCommand,
                 afterPane, diffOutput, sawBaseline, sawDeviation, baselineSince, pollFailed,
                 endedAt, actionBeganAt, snapBefore, snapAfter>>
  /\ UNCHANGED openVars

\* A send that is issued again after it failed.
sendKeysToPane_Retries ==
  /\ pc = "sendKeys"
  /\ \E d \in Latencies, ok \in BOOLEAN :
       /\ now' = now + d
       /\ calls' = Append(calls, Call(CALL_SEND_KEYS, <<>>, ok))
       /\ sent' = Append(sent, SendCall(keyTokens, ok))
       /\ IF ok \/ Len(sent) = 0
          THEN IF ok THEN WatchStart(now + d)
               ELSE UNCHANGED <<pc, out, exitCode, deadline, startedAt, changedFromShell,
                                lastShellSeenAt, timedOut, det>>
          ELSE ActionFailed
  /\ UNCHANGED <<args, envVars, sessionName, paneId, beforePane, shellCommand,
                 afterPane, diffOutput, sawBaseline, sawDeviation, baselineSince, pollFailed,
                 endedAt, actionBeganAt, snapBefore, snapAfter>>
  /\ UNCHANGED openVars

\* keys: await sendKeysToPane(paneId, keyTokens)
sendKeysToPane ==
  /\ pc = "sendKeys"
  /\ \E d \in Latencies, ok \in BOOLEAN :
       /\ now' = now + d
       /\ calls' = Append(calls, Call(CALL_SEND_KEYS, <<>>, ok))
       /\ sent' = Append(sent, SendCall(keyTokens, ok))
       /\ IF ok THEN WatchStart(now + d) ELSE ActionFailed
  /\ UNCHANGED <<args, envVars, sessionName, paneId, beforePane, shellCommand,
                 afterPane, diffOutput, sawBaseline, sawDeviation, baselineSince, pollFailed,
                 endedAt, actionBeganAt, snapBefore, snapAfter>>
  /\ UNCHANGED openVars

\* while (Date.now() < deadline), off by one poll interval.
loopCondition_OneTickEarly(t) == t + pollMs < deadline

\* while (Date.now() < deadline)
loopCondition(t) == t < deadline

\* No grace period at all.
inGracePeriod_NoGrace(t) == FALSE

\* A grace period that goes on after a change of command was seen.
inGracePeriod_IgnoresChange(t) == t - startedAt < graceMs

\* !changedFromShell && Date.now() - startedAt < 250
inGracePeriod(t) == ~changedFromShell /\ t - startedAt < graceMs

\* The stability test made against the deadline's length instead of stableMs.
isStable_AgainstTimeout(t, seenAt) == t - seenAt >= timeoutMs

\* Date.now() - lastShellSeenAt >= stableMs
isStable(t, seenAt) == t - seenAt >= stableMs

\* The watch loop ended at time t: the after capture is issued.
WatchEnd(t) ==
  /\ endedAt' = t
  /\ pc' = "captureAfter"

\* A poll whose stability timer runs on through a command other than the baseline.
Poll_KeepsTimer ==
  /\ pc = "poll"
  /\ \E d \in Latencies, ok \in BOOLEAN :
       LET t == now + d
           currentCommand ==
             getPaneCurrentCommand(IF ok THEN displayMessageOutput(PaneCommand(paneId)) ELSE <<>>)
           seenAt == IF lastShellSeenAt = 0 THEN t ELSE lastShellSeenAt
       IN /\ now' = t
          /\ sawBaseline' = (sawBaseline \/ currentCommand = shellCommand)
          /\ sawDeviation' = (sawDeviation \/ currentCommand # shellCommand)
          /\ pollFailed' = (pollFailed \/ ~ok)
          /\ baselineSince' = IF currentCommand # shellCommand THEN 0
                              ELSE IF baselineSince = 0 THEN t ELSE baselineSince
          /\ IF currentCommand # shellCommand
             THEN /\ changedFromShell' = TRUE
                  /\ pc' = "sleep"
                  /\ UNCHANGED <<lastShellSeenAt, timedOut, det, endedAt>>
             ELSE IF inGracePeriod(t)
             THEN /\ pc' = "sleep"
                  /\ UNCHANGED <<changedFromShell, lastShellSeenAt, timedOut, det, endedAt>>
             ELSE /\ lastShellSeenAt' = seenAt
                  /\ UNCHANGED changedFromShell
                  /\ IF isStable(t, seenAt)
                     THEN /\ timedOut' = FALSE
                          /\ det' = "Settled"
                          /\ WatchEnd(t)
                     ELSE /\ pc' = "sleep"
                          /\ UNCHANGED <<timedOut, det, endedAt>>
  /\ UNCHANGED <<args, envVars, sessionName, paneId, sent, out, exitCode, beforePane,
                 shellCommand, deadline, startedAt, afterPane, diffOutput, actionBeganAt,
                 snapBefore, snapAfter>>
  /\ UNCHANGED <<calls, openVars>>

\* const currentCommand = await getPaneCurrentCommand(paneId), and the body of
\* the loop up to its sleep or its break.
PollWithin(latencies) ==
  /\ pc = "poll"
  /\ \E d \in latencies, ok \in BOOLEAN :
       LET t == now + d
           currentCommand ==
             getPaneCurrentCommand(IF ok THEN displayMessageOutput(PaneCommand(paneId)) ELSE <<>>)
           seenAt == IF lastShellSeenAt = 0 THEN t ELSE lastShellSeenAt
       IN /\ now' = t
          /\ sawBaseline' = (sawBaseline \/ currentCommand = shellCommand)
          /\ sawDeviation' = (sawDeviation \/ currentCommand # shellCommand)
          /\ pollFailed' = (pollFailed \/ ~ok)
          /\ baselineSince' = IF currentCommand # shellCommand THEN 0
                              ELSE IF baselineSince = 0 THEN t ELSE baselineSince
          /\ IF currentCommand # shellCommand
             THEN /\ changedFromShell' = TRUE
                  /\ lastShellSeenAt' = 0
                  /\ pc' = "sleep"
                  /\ UNCHANGED <<timedOut, det, endedAt>>
             ELSE IF inGracePeriod(t)
             THEN /\ pc' = "sleep"
                  /\ UNCHANGED <<changedFromShell, lastShellSeenAt, timedOut, det, endedAt>>
             ELSE /\ lastShellSeenAt' = seenAt
                  /\ UNCHANGED changedFromShell
                  /\ IF isStable(t, seenAt)
                     THEN /\ timedOut' = FALSE
                          /\ det' = "Settled"
                          /\ WatchEnd(t)
                     ELSE /\ pc' = "sleep"
                          /\ UNCHANGED <<timedOut, det, endedAt>>
  /\ UNCHANGED <<args, envVars, sessionName, paneId, sent, out, exitCode, beforePane,
                 shellCommand, deadline, startedAt, afterPane, diffOutput, actionBeganAt,
                 snapBefore, snapAfter>>
  /\ UNCHANGED <<calls, openVars>>

\* The poll, its read taking one of the latencies of the model.
Poll == PollWithin(Latencies)

\* A loop that goes round without letting time pass.
Sleep_NoDelay ==
  /\ pc = "sleep"
  /\ pc' = "poll"
  /\ UNCHANGED <<args, envVars, now, sessionName, paneId, sent, out, exitCode, detVars>>
  /\ UNCHANGED <<calls, openVars>>

\* A loop that looks at the stability timer before it looks at the deadline.
Sleep_StabilityFirst ==
  /\ pc = "sleep"
  /\ LET t == now + pollMs
     IN /\ now' = t
        /\ IF lastShellSeenAt # 0 /\ isStable(t, lastShellSeenAt)
           THEN det' = "Settled" /\ WatchEnd(t)
           ELSE IF loopCondition(t)
           THEN pc' = "poll" /\ UNCHANGED <<det, endedAt>>
           ELSE det' = "TimedOut" /\ WatchEnd(t)
  /\ UNCHANGED <<args, envVars, sessionName, paneId, sent, out, exitCode, beforePane,
                 shellCommand, deadline, startedAt, changedFromShell, lastShellSeenAt,
                 timedOut, afterPane, diffOutput, sawBaseline, sawDeviation, baselineSince,
                 pollFailed, actionBeganAt, snapBefore, snapAfter>>
  /\ UNCHANGED <<calls, openVars>>

\* await sleep(100), and the loop condition Date.now() < deadline.
Sleep ==
  /\ pc = "sleep"
  /\ LET t == now + pollMs
     IN /\ now' = t
        /\ IF loopCondition(t)
           THEN pc' = "poll" /\ UNCHANGED <<det, endedAt>>
           ELSE det' = "TimedOut" /\ WatchEnd(t)
  /\ UNCHANGED <<args, envVars, sessionName, paneId, sent, out, exitCode, beforePane,
                 shellCommand, deadline, startedAt, changedFromShell, lastShellSeenAt,
                 timedOut, afterPane, diffOutput, sawBaseline, sawDeviation, baselineSince, pollFailed,
                 actionBeganAt,
                 snapBefore, snapAfter>>
  /\ UNCHANGED <<calls, openVars>>

\* An exit code that does not tell a timeout from a settle.
settleExitCode_AlwaysOk(isTimedOut) == EXIT_OK

\* return timedOut ? 124 : 0
settleExitCode(isTimedOut) == IF isTimedOut THEN EXIT_TIMEOUT ELSE EXIT_OK

\* An ending that reports nothing when the loop timed out.
CaptureAfter_SilentOnTimeout ==
  /\ pc = "captureAfter"
  /\ \E ok \in BOOLEAN :
       LET after == IF ok THEN capturePane(capturePaneOutput(PaneLines(paneId))) ELSE <<>>
           diff == IF timedOut THEN <<>> ELSE diffLines(beforePane, after)
       IN /\ afterPane' = after
          /\ calls' = Append(calls, Call(CALL_CAPTURE, HISTORY_START, ok))
          /\ snapAfter' = IF ok THEN PaneLines(paneId) ELSE <<>>
          /\ diffOutput' = diff
          /\ Exit(printSessionOutput(sessionName, diff,
                                     IF timedOut THEN TIMEOUT_MESSAGE ELSE <<>>),
                  settleExitCode(timedOut))
  /\ UNCHANGED <<args, envVars, now, sessionName, paneId, sent, beforePane,
                 shellCommand, deadline, startedAt, changedFromShell, lastShellSeenAt,
                 timedOut, det, sawBaseline, sawDeviation, baselineSince, pollFailed, endedAt,
                 actionBeganAt, snapBefore>>
  /\ UNCHANGED openVars

\* const afterPane = await capturePane(paneId, "-50000").catch(() => ""), the
\* diff, the printing, and process.exit(exitCode) in the handler.
CaptureAfter ==
  /\ pc = "captureAfter"
  /\ \E ok \in BOOLEAN :
       LET after == IF ok THEN capturePane(capturePaneOutput(PaneLines(paneId))) ELSE <<>>
           diff == diffLines(beforePane, after)
       IN /\ afterPane' = after
          /\ calls' = Append(calls, Call(CALL_CAPTURE, HISTORY_START, ok))
          /\ snapAfter' = IF ok THEN PaneLines(paneId) ELSE <<>>
          /\ diffOutput' = diff
          /\ Exit(printSessionOutput(sessionName, diff,
                                     IF timedOut THEN TIMEOUT_MESSAGE ELSE <<>>),
                  settleExitCode(timedOut))
  /\ UNCHANGED <<args, envVars, now, sessionName, paneId, sent, beforePane,
                 shellCommand, deadline, startedAt, changedFromShell, lastShellSeenAt,
                 timedOut, det, sawBaseline, sawDeviation, baselineSince, pollFailed, endedAt,
                 actionBeganAt, snapBefore>>
  /\ UNCHANGED openVars

\* tmux capture-pane -p -S <start>: the lines from the start line to the end of
\* the pane, each followed by a newline.  The pane is modelled without a split
\* between history and visible screen: a start of -N stands for its last N lines.
captureFrom(lines, start) ==
  IF start = HISTORY_START THEN capturePaneOutput(lines)
  ELSE LET n == 0 - parseInt(start).value
       IN capturePaneOutput(SubSeq(lines, Max(1, Len(lines) - n + 1), Len(lines)))

\* A tail that remembers what the invocation before it captured and prints
\* only what is new since.
CaptureTail_OnlyNew ==
  /\ pc = "captureTail"
  /\ \E ok \in BOOLEAN :
       LET paneOutput == IF ok THEN capturePane(captureFrom(PaneLines(paneId), tailStart)) ELSE <<>>
           shown == IF prev = <<>> THEN TrimEnd(paneOutput)
                    ELSE diffLines(capturePane(captureFrom(prev.pane, tailStart)), paneOutput)
       IN /\ calls' = Append(calls, Call(CALL_CAPTURE, tailStart, ok))
          /\ Exit(printSessionOutput(sessionName, shown, <<>>), EXIT_OK)
  /\ UNCHANGED <<args, envVars, now, sessionName, paneId, sent, detVars, openVars>>

\* tail: const paneOutput = await capturePane(paneId, `-${lineCount}`).catch(() => ""),
\* printSessionOutput and process.exit(0).
CaptureTail ==
  /\ pc = "captureTail"
  /\ \E ok \in BOOLEAN :
       LET paneOutput == IF ok THEN capturePane(captureFrom(PaneLines(paneId), tailStart)) ELSE <<>>
       IN /\ calls' = Append(calls, Call(CALL_CAPTURE, tailStart, ok))
          /\ Exit(printSessionOutput(sessionName, TrimEnd(paneOutput), <<>>), EXIT_OK)
  /\ UNCHANGED <<args, envVars, now, sessionName, paneId, sent, detVars, openVars>>

\* An awaited command failed and nothing catches the error: the process ends
\* with the runtime's exit code for an uncaught error, 1.
Uncaught == Exit(<<>>, EXIT_FAIL)

\* open: await createSession(targetSessionName).  tmux refuses a name that is
\* already taken.
CreateSession ==
  /\ pc = "createSession"
  /\ \E ok \in IF sessionName \in liveSessions THEN {FALSE} ELSE BOOLEAN :
       /\ calls' = Append(calls, Call(CALL_NEW_SESSION, sessionName, ok))
       /\ IF ok
          THEN /\ liveSessions' = liveSessions \cup {sessionName}
               /\ pc' = "openSession"
               /\ UNCHANGED <<out, exitCode>>
          ELSE Uncaught /\ UNCHANGED liveSessions
  /\ UNCHANGED <<args, paneLines, fg, writes, now, sessionName, paneId, sent, detVars,
                 openVars>>

\* open: await openSession(name) and process.exit(0).  tmux opens a session
\* only if it is live.
OpenSession ==
  /\ pc = "openSession"
  /\ \E ok \in IF sessionName \in liveSessions THEN BOOLEAN ELSE {FALSE} :
       /\ calls' = Append(calls, Call(IF inTmux THEN CALL_SWITCH_CLIENT ELSE CALL_ATTACH,
                                      sessionName, ok))
       /\ IF ok
          THEN attached' = sessionName /\ Exit(<<>>, EXIT_OK)
          ELSE Uncaught /\ UNCHANGED attached
  /\ UNCHANGED <<args, envVars, now, sessionName, paneId, sent, detVars, inTmux, peer,
                 otherPane, prev>>

(***************************************************************************)
(* The pane's programs, running beside the invocation.                     *)
(***************************************************************************)
\* The foreground command of the pane changes.
EnvForeground ==
  /\ pc # "exit"
  /\ fg' \in FgNames \ {fg}
  /\ UNCHANGED <<args, liveSessions, paneLines, writes, now, pc, sessionName, paneId,
                 detVars, out, exitCode, sent>>
  /\ UNCHANGED <<calls, openVars>>

\* A program writes a line to the pane.
EnvPaneWrite ==
  /\ pc # "exit"
  /\ writes < MaxPaneWrites
  /\ \E l \in PaneWriteLines : paneLines' = Append(paneLines, l)
  /\ writes' = writes + 1
  /\ UNCHANGED <<args, liveSessions, fg, now, pc, sessionName, paneId, detVars, out,
                 exitCode, sent>>
  /\ UNCHANGED <<calls, openVars>>

Invocation ==
  \/ Dispatch \/ ResolveSession \/ ResolvePane \/ CaptureBefore \/ ReadBaseline
  \/ SendLiteral \/ SendSubmit \/ sendKeysToPane \/ Poll \/ Sleep \/ CaptureAfter
  \/ CaptureTail \/ CreateSession \/ OpenSession

Next == Invocation \/ EnvForeground \/ EnvPaneWrite

Spec == Init /\ [][Next]_vars

(***************************************************************************)
(* The invocation alone, in front of a quiet pane, for every argument list *)
(* up to MaxRest arguments after the session name.                         *)
(***************************************************************************)
ArgInit ==
  /\ StartWith(ArgLists, {{}, {SESSION_A}, {SESSION_A_BAR_B}}, {FG_SHELL}, InitialPanes)
  /\ inTmux \in BOOLEAN /\ NoPeers

ArgSpec == ArgInit /\ [][Invocation]_vars

(***************************************************************************)
(* The watch loop of executeAndPrintPaneDiff from its entry, beside the    *)
(* pane: the send has succeeded, the baseline read returned any of the     *)
(* foreground names, and the loop's locals have just been set.  The event  *)
(* loop runs the invocation's continuation whenever its pending call has   *)
(* returned: the loop's steps are weakly fair.  The pane's programs are    *)
(* under no such obligation.                                               *)
(***************************************************************************)
\* The calls of a keys invocation up to its send, all of them successful.
callsOfKeysAction ==
  << Call(CALL_LIST_SESSIONS, <<>>, TRUE), Call(CALL_ACTIVE_PANE, <<>>, TRUE),
     Call(CALL_CAPTURE, HISTORY_START, TRUE), Call(CALL_CURRENT_COMMAND, <<>>, TRUE),
     Call(CALL_SEND_KEYS, <<>>, TRUE) >>

FairInit ==
  /\ args = <<CMD_KEYS, SESSION_A, KEY_CTRL_C>>
  /\ liveSessions = {SESSION_A}
  /\ paneLines \in InitialPanes
  /\ fg \in FgNames
  /\ writes = 0
  /\ sessionName = SESSION_A
  /\ paneId = PaneOf(SESSION_A)
  /\ snapBefore = paneLines
  /\ beforePane = capturePane(capturePaneOutput(paneLines))
  /\ shellCommand \in FgNames
  /\ sent = <<SendCallTo(PaneOf(SESSION_A), <<KEY_CTRL_C>>, TRUE)>>
  /\ calls = callsOfKeysAction
  /\ attached = <<>> /\ inTmux = FALSE /\ prev = <<>> /\ NoPeers
  /\ out = <<>> /\ exitCode = -1
  /\ afterPane = <<>> /\ diffOutput = <<>> /\ snapAfter = <<>>
  /\ now = T0 /\ actionBeganAt = T0 /\ startedAt = T0 /\ deadline = T0 + timeoutMs
  /\ changedFromShell = FALSE /\ lastShellSeenAt = 0 /\ timedOut = TRUE
  /\ sawBaseline = FALSE /\ endedAt = 0
  /\ sawDeviation = FALSE /\ baselineSince = 0 /\ pollFailed = FALSE
  /\ det = "Watching"
  /\ pc = "poll"

WatchLoop == Poll \/ Sleep \/ CaptureAfter

FairNext == WatchLoop \/ EnvForeground \/ EnvPaneWrite

FairSpec == FairInit /\ [][FairNext]_vars /\ WF_vars(WatchLoop)

\* The watch loop with reads of the foreground command that take up to one
\* poll interval more.
SlowLatencies == {k * pollMs : k \in 0..(MaxLatencyTicks + 1)}
SlowPoll == PollWithin(SlowLatencies)
SlowNext == SlowPoll \/ Sleep \/ CaptureAfter \/ EnvForeground
SlowSpec == FairInit /\ [][SlowNext]_vars

(***************************************************************************)
(* The end of executeAndPrintPaneDiff for every pair of snapshots: the     *)
(* watch loop has ended, the before capture read the lines b, and the pane *)
(* now holds the lines a.                                                  *)
(***************************************************************************)
SnapLineAlphabet == { <<>>, <<"a">>, <<SP>>, <<"a", SP>> }
Snapshots == SeqsUpTo(SnapLineAlphabet, MaxSnapLines)

DiffInit ==
  /\ args = <<CMD_KEYS, SESSION_A, KEY_CTRL_C>>
  /\ liveSessions = {SESSION_A}
  /\ fg = FG_SHELL
  /\ writes = 0
  /\ sessionName = SESSION_A
  /\ paneId = PaneOf(SESSION_A)
  /\ shellCommand = FG_SHELL
  /\ sent = <<SendCallTo(PaneOf(SESSION_A), <<KEY_CTRL_C>>, TRUE)>>
  /\ calls = callsOfKeysAction
  /\ attached = <<>> /\ inTmux = FALSE /\ prev = <<>> /\ NoPeers
  /\ out = <<>> /\ exitCode = -1
  /\ afterPane = <<>> /\ diffOutput = <<>> /\ snapAfter = <<>>
  /\ actionBeganAt = T0 /\ startedAt = T0 /\ deadline = T0 + timeoutMs
  /\ pc = "captureAfter"
  /\ \E b \in Snapshots :
       /\ snapBefore = b
       /\ beforePane = capturePane(capturePaneOutput(b))
  /\ paneLines \in Snapshots
  /\ \/ /\ timedOut = FALSE /\ det = "Settled"
        /\ changedFromShell = FALSE /\ sawBaseline = TRUE
        /\ sawDeviation = FALSE /\ baselineSince = T0 /\ pollFailed = FALSE
        /\ lastShellSeenAt = T0 + 3 * pollMs
        /\ now = T0 + 3 * pollMs + stableMs /\ endedAt = now
     \/ /\ timedOut = TRUE /\ det = "TimedOut"
        /\ changedFromShell = TRUE /\ sawBaseline = FALSE
        /\ sawDeviation = TRUE /\ baselineSince = 0 /\ pollFailed = FALSE
        /\ lastShellSeenAt = 0
        /\ now = T0 + timeoutMs /\ endedAt = now

DiffSpec == DiffInit /\ [][CaptureAfter]_vars

(***************************************************************************)
(* run at the point where it sends its command line, for command lines of  *)
(* up to MaxCommandArgs arguments made of letters, spaces, quotes and       *)
(* backslashes: the session and the pane are resolved, the before capture  *)
(* and the baseline are read.                                              *)
(***************************************************************************)
BACKSLASH == "\\"
QuoteAlphabet == {"a", SP, SQ, DQ, BACKSLASH}
QuoteWords ==
  SeqsUpTo(QuoteAlphabet, MaxWordLen)
  \cup { <<"a", SQ, "a">>, <<SQ, SQ>>, <<"a", SP, "a">> }
QuoteArgLists ==
  { <<CMD_RUN, SESSION_A, TOK_SEP>> \o words :
      words \in SeqsUpTo(QuoteWords, MaxCommandArgs) \ {<<>>} }

QuoteInit ==
  /\ args \in QuoteArgLists
  /\ liveSessions = {SESSION_A}
  /\ paneLines \in InitialPanes
  /\ fg = FG_SHELL
  /\ writes = 0
  /\ now = T0
  /\ sessionName = SESSION_A
  /\ paneId = PaneOf(SESSION_A)
  /\ snapBefore = paneLines
  /\ beforePane = capturePane(capturePaneOutput(paneLines))
  /\ shellCommand = FG_SHELL
  /\ det = "Mutating" /\ actionBeganAt = T0
  /\ deadline = 0 /\ startedAt = 0 /\ changedFromShell = FALSE /\ lastShellSeenAt = 0
  /\ timedOut = TRUE /\ sawBaseline = FALSE /\ endedAt = 0
  /\ sawDeviation = FALSE /\ baselineSince = 0 /\ pollFailed = FALSE
  /\ afterPane = <<>> /\ diffOutput = <<>> /\ snapAfter = <<>>
  /\ out = <<>> /\ exitCode = -1 /\ sent = <<>>
  /\ calls = SubSeq(callsOfKeysAction, 1, 4)
  /\ attached = <<>> /\ inTmux = FALSE /\ prev = <<>> /\ NoPeers
  /\ pc = "sendLiteral"

QuoteSpec == QuoteInit /\ [][SendLiteral]_vars

(***************************************************************************)
(* tail, invoked and then invoked again with the same arguments, in front  *)
(* of panes of several lengths; a program may write to the pane while an   *)
(* invocation runs and between the two.                                    *)
(***************************************************************************)
TailPanes == { <<>>, <<LINE_TEXT>>, <<LINE_TEXT, <<"b">>, <<"c", SP>>>>,
               <<LINE_TEXT, <<"b">>, <<>>>> }

TailInit ==
  /\ StartWith(TailArgLists, {{}, {SESSION_A}, {SESSION_A_BAR_B}}, {FG_SHELL}, TailPanes)
  /\ inTmux \in BOOLEAN /\ NoPeers

\* The process has exited and the user runs the same command line again: a
\* new process starts, some time later, in front of the same tmux server.
InvokeAgain ==
  /\ pc = "exit"
  /\ prev = <<>>
  /\ prev' = [out |-> out, exitCode |-> exitCode, calls |-> calls,
              pane |-> paneLines, writes |-> writes]
  /\ pc' = "start"
  /\ now' = now + pollMs
  /\ out' = <<>> /\ exitCode' = -1 /\ calls' = <<>>
  /\ sessionName' = <<>> /\ paneId' = <<>>
  /\ UNCHANGED <<args, envVars, sent, detVars, attached, inTmux, peer, otherPane>>

TailInvocation == Dispatch \/ ResolveSession \/ ResolvePane \/ CaptureTail

TailNext == TailInvocation \/ InvokeAgain \/ EnvPaneWrite

TailSpec == TailInit /\ [][TailNext]_vars

(***************************************************************************)
(* Another invocation of the tool, running beside this one against the     *)
(* same tmux server.  Its captures and reads leave tmux as it is; what the *)
(* first invocation can meet of it are its sends and the program they      *)
(* start.                                                                  *)
(***************************************************************************)
\* The pane the other invocation resolved for its session.
peerPane == getActivePaneId(displayMessageOutput(PaneOf(peer.session)))

\* One pane of tmux changes: its lines and its foreground command.
SetPane(id, lines, command) ==
  IF id = PaneOf(SESSION_B)
  THEN otherPane' = [lines |-> lines, fg |-> command] /\ UNCHANGED <<paneLines, fg>>
  ELSE paneLines' = lines /\ fg' = command /\ UNCHANGED otherPane

\* A send of the other invocation that waits for this one to exit.
PeerSend_Waits ==
  /\ pc = "start"
  /\ peer.sends < MaxPeerSends
  /\ \E started \in BOOLEAN :
       /\ SetPane(peerPane, Append(PaneLines(peerPane), PEER_LINE),
                  IF started THEN FG_PROGRAM ELSE PaneCommand(peerPane))
       /\ peer' = [peer EXCEPT !.sends = @ + 1, !.running = @ \/ started]
  /\ UNCHANGED <<args, liveSessions, writes, now, pc, sessionName, paneId, detVars, out,
                 exitCode, sent, calls, attached, inTmux, prev>>

\* The other invocation's sendKeysToPane: its input shows in the pane it
\* resolved, and may start a program there.
PeerSend ==
  /\ pc # "exit"
  /\ peer.sends < MaxPeerSends
  /\ \E started \in BOOLEAN :
       /\ SetPane(peerPane, Append(PaneLines(peerPane), PEER_LINE),
                  IF started THEN FG_PROGRAM ELSE PaneCommand(peerPane))
       /\ peer' = [peer EXCEPT !.sends = @ + 1, !.running = @ \/ started]
  /\ UNCHANGED <<args, liveSessions, writes, now, pc, sessionName, paneId, detVars, out,
                 exitCode, sent, calls, attached, inTmux, prev>>

\* The program the other invocation started ends: its pane is back at the shell.
PeerProgramEnds ==
  /\ pc # "exit"
  /\ peer.running
  /\ SetPane(peerPane, PaneLines(peerPane), FG_SHELL)
  /\ peer' = [peer EXCEPT !.running = FALSE]
  /\ UNCHANGED <<args, liveSessions, writes, now, pc, sessionName, paneId, detVars, out,
                 exitCode, sent, calls, attached, inTmux, prev>>

PeerArgLists ==
  { <<CMD_RUN, SESSION_A, TOK_SEP, KEY_CTRL_C>>, <<CMD_KEYS, SESSION_A, KEY_CTRL_C>> }

\* A run or keys invocation on session a in front of an idle shell, and
\* another invocation whose session is a or b.
PeerInit ==
  /\ StartWith(PeerArgLists, {{SESSION_A, SESSION_B}}, {FG_SHELL}, InitialPanes)
  /\ inTmux = FALSE
  /\ peer \in {[session |-> s, sends |-> 0, running |-> FALSE] : s \in {SESSION_A, SESSION_B}}
  /\ otherPane = [lines |-> <<LINE_TEXT>>, fg |-> FG_SHELL]

PaneInvocation ==
  \/ Dispatch \/ ResolveSession \/ ResolvePane \/ CaptureBefore \/ ReadBaseline
  \/ SendLiteral \/ SendSubmit \/ sendKeysToPane \/ Poll \/ Sleep \/ CaptureAfter

PeerNext == PaneInvocation \/ PeerSend \/ PeerProgramEnds

PeerSpec == PeerInit /\ [][PeerNext]_vars

(***************************************************************************)
(* Vocabulary of the claims.                                               *)
(***************************************************************************)
Exited == pc = "exit"
\* The watch loop of this invocation has ended.
WatchEnded == det \in {"Settled", "TimedOut"}
\* Help was asked for: some argument after a named command is a help flag.
HelpRequested ==
  /\ args # <<>>
  /\ isNamedCommand(args[1])
  /\ \E i \in 2..Len(args) : isHelpFlag(args[i])
SendFailed == \E i \in 1..Len(sent) : ~sent[i].ok
\* The arguments passed the handler's checks, and no pane was resolved: the
\* session was not found or its active pane could not be resolved.
ResolutionFailed == Exited /\ sessionName # <<>> /\ paneId = <<>>
\* The longest delay of one external call.
MaxLatency == MaxLatencyTicks * pollMs

(***************************************************************************)
(* C1.  Exit codes of run and keys.                                        *)
(***************************************************************************)
\* C1, as claimed: a run or keys invocation exits 0 exactly when the settle
\* detector reached Settled, 124 exactly when it reached TimedOut, 1 when the
\* session is unknown, the pane cannot be resolved or the send fails, and with
\* no other code.
C1_Original ==
  (Exited /\ args[1] \in {CMD_RUN, CMD_KEYS}) =>
    /\ exitCode \in {EXIT_OK, EXIT_FAIL, EXIT_TIMEOUT}
    /\ (exitCode = EXIT_OK) <=> (det = "Settled")
    /\ (exitCode = EXIT_TIMEOUT) <=> (det = "TimedOut")
    /\ (ResolutionFailed \/ SendFailed) => exitCode = EXIT_FAIL

\* C1, amended: a run or keys invocation exits 0 exactly when the settle
\* detector reached Settled or help was asked for (a help flag among the
\* arguments: the help is printed and the detector never runs), 124 exactly
\* when the detector reached TimedOut, 1 when the session is unknown, the pane
\* cannot be resolved or the send fails, and with no other code.
C1_ExitCodes ==
  (Exited /\ args[1] \in {CMD_RUN, CMD_KEYS}) =>
    /\ exitCode \in {EXIT_OK, EXIT_FAIL, EXIT_TIMEOUT}
    /\ (exitCode = EXIT_OK) <=> (det = "Settled" \/ HelpRequested)
    /\ (exitCode = EXIT_TIMEOUT) <=> (det = "TimedOut")
    /\ (ResolutionFailed \/ SendFailed) => exitCode = EXIT_FAIL
    /\ HelpRequested => det = "None" /\ sent = <<>>

\* A run that timed out and exited 124 after both of its sends succeeded.
C1_Witness ==
  /\ Exited /\ args[1] = CMD_RUN /\ det = "TimedOut" /\ exitCode = EXIT_TIMEOUT
  /\ Len(sent) = 2 /\ ~SendFailed

(***************************************************************************)
(* C2.  A timed-out invocation still reports the diff.                     *)
(***************************************************************************)
\* C2: when the detector ends in TimedOut the after snapshot is still captured
\* and diffed against the before snapshot, and what is printed is the advisory
\* message followed by exactly what a settled invocation prints for the same
\* two snapshots.
C2_TimedOutPrintsDiff ==
  (Exited /\ det = "TimedOut") =>
    /\ diffOutput = diffLines(beforePane, afterPane)
    /\ afterPane = capturePane(capturePaneOutput(snapAfter))
    /\ out = <<Log(TIMEOUT_MESSAGE)>>
             \o printSessionOutput(sessionName, diffLines(beforePane, afterPane), <<>>)

\* A timed-out invocation that printed new lines.
C2_Witness ==
  /\ Exited /\ det = "TimedOut" /\ diffOutput # <<>>
  /\ \E i \in 1..Len(out) : out[i] = Log(diffOutput)

(***************************************************************************)
(* C3.  A pane that stays at the baseline settles.                         *)
(***************************************************************************)
\* C3: if every poll read the baseline command, the detector settles, no
\* earlier than the grace period after polling began and before the deadline,
\* and reports timedOut = false.
C3_BaselineSettles ==
  (WatchEnded /\ ~changedFromShell) =>
    /\ det = "Settled" /\ ~timedOut
    /\ endedAt >= startedAt + graceMs
    /\ endedAt < deadline
    /\ Exited => exitCode = EXIT_OK

\* An invocation that settled without ever seeing a foreground change.
C3_Witness == Exited /\ det = "Settled" /\ ~changedFromShell /\ sawBaseline

(***************************************************************************)
(* C4.  A pane that never shows the baseline times out.                    *)
(***************************************************************************)
\* C4, as claimed: if every poll of the deadline window read a command other
\* than the baseline, the detector reports timedOut = true at exactly the
\* deadline.
C4_Original ==
  (WatchEnded /\ ~sawBaseline) =>
    /\ timedOut /\ det = "TimedOut"
    /\ endedAt = startedAt + timeoutMs

\* C4, amended: if every poll read a command other than the baseline, the
\* detector reports timedOut = true at the first test of the loop condition
\* made at or after the deadline, which is less than one poll interval plus the
\* duration of one foreground read after the deadline, not exactly at it; the
\* output accumulated until then is diffed and printed.
C4_NeverBaselineTimesOut ==
  (WatchEnded /\ ~sawBaseline) =>
    /\ timedOut /\ det = "TimedOut"
    /\ endedAt >= startedAt + timeoutMs
    /\ endedAt < startedAt + timeoutMs + pollMs + MaxLatency
    /\ Exited => /\ exitCode = EXIT_TIMEOUT
                 /\ diffOutput = diffLines(beforePane, afterPane)

\* A timeout noticed after the deadline, with output to report.
C4_Witness ==
  /\ Exited /\ det = "TimedOut" /\ ~sawBaseline
  /\ endedAt > startedAt + timeoutMs
  /\ diffOutput # <<>>

(***************************************************************************)
(* C5.  The watch loop ends.                                               *)
(***************************************************************************)
\* C5: whatever the foreground observations are, the detector leaves Watching
\* and reaches Settled or TimedOut (it is never in both, det being one value).
C5_WatchingEnds == (det = "Watching") ~> WatchEnded

\* A loop that ended by timeout after seeing the foreground both at and away
\* from the baseline.
C5_Witness ==
  /\ det = "TimedOut" /\ changedFromShell /\ sawBaseline

(***************************************************************************)
(* Vocabulary of the claims about the differ.                              *)
(***************************************************************************)
IsBlankLine(l) == \A i \in 1..Len(l) : IsWhiteSpace(l[i])

\* l without the white space at its end.
RStrip(l) ==
  LET keep == {i \in 1..Len(l) : ~IsWhiteSpace(l[i])}
      n == IF keep = {} THEN 0 ELSE CHOOSE i \in keep : \A j \in keep : j <= i
  IN SubSeq(l, 1, n)

\* ls without the blank lines at its end, and without the white space at the
\* end of the last line left.
TrimTrailingLines(ls) ==
  LET keep == {i \in 1..Len(ls) : ~IsBlankLine(ls[i])}
      n == IF keep = {} THEN 0 ELSE CHOOSE i \in keep : \A j \in keep : j <= i
  IN IF n = 0 THEN <<>> ELSE SubSeq(ls, 1, n - 1) \o <<RStrip(ls[n])>>

\* The length of the longest common prefix of two sequences of lines.
CommonPrefixLen(bl, al) ==
  LET common == {k \in 0..Len(bl) : k <= Len(al) /\ \A i \in 1..k : bl[i] = al[i]}
  IN CHOOSE k \in common : \A j \in common : j <= k

\* The after snapshot is the before snapshot with lines appended.
IsAppend ==
  /\ Len(snapAfter) >= Len(snapBefore)
  /\ SubSeq(snapAfter, 1, Len(snapBefore)) = snapBefore
Appended == SubSeq(snapAfter, Len(snapBefore) + 1, Len(snapAfter))

\* The lines of what the differ returned.
ReportedLines == splitLines(diffOutput)

(***************************************************************************)
(* C6.  Appended lines.                                                    *)
(***************************************************************************)
\* C6, as claimed: when the after snapshot is the before snapshot with K lines
\* appended, the differ returns exactly those K lines.
C6_Original == (Exited /\ IsAppend) => ReportedLines = Appended

\* C6, amended: when the after snapshot is the before snapshot with K lines
\* appended, the differ returns those K lines without the blank lines at their
\* end and without the white space at the end of the last line left; and when
\* the before snapshot is not empty and the first appended line is empty, that
\* first line is not returned either (the newline that ends the before capture
\* splits into an empty last line, which the walk matches against it).
C6_AppendedLinesTrimmed ==
  (Exited /\ IsAppend) =>
    ReportedLines =
      TrimTrailingLines(IF snapBefore # <<>> /\ Appended # <<>> /\ Appended[1] = <<>>
                        THEN Tail(Appended) ELSE Appended)

\* Two lines appended to a snapshot of one line, and reported.
C6_Witness ==
  /\ Exited /\ IsAppend /\ Len(snapBefore) = 1 /\ Len(Appended) = 2
  /\ ReportedLines = Appended

(***************************************************************************)
(* C7.  Equal snapshots.                                                   *)
(***************************************************************************)
\* C7: when the before and after snapshots are equal the differ returns the
\* empty sequence, and the header and the footer are printed with no output
\* block between them.
C7_EqualSnapshotsEmptyDiff ==
  (Exited /\ WatchEnded /\ beforePane = afterPane) =>
    /\ diffOutput = <<>>
    /\ out = (IF timedOut THEN <<Log(TIMEOUT_MESSAGE)>> ELSE <<>>)
             \o <<Log(runHeader(sessionName)), Log(runFooter(sessionName))>>

\* A settled invocation whose two snapshots are the same three lines.
C7_Witness ==
  /\ Exited /\ det = "Settled" /\ beforePane = afterPane
  /\ Len(snapBefore) = 3 /\ snapAfter = snapBefore /\ Len(out) = 2

UserTokens == SubSeq(args, 3, Len(args))
\* Those tokens with one leading "--" removed, if there is one.
UserKeyTokens ==
  IF UserTokens # <<>> /\ UserTokens[1] = TOK_SEP THEN Tail(UserTokens) ELSE UserTokens

\* C9: keys makes at most one send call, to the session's pane, and its
\* arguments are the user's tokens in order with at most one leading "--"
\* removed: nothing is added, and no submit follows; an invocation that reaches
\* the watch loop has made that one call.
C9_KeysForwardsTokens ==
  (args[1] = CMD_KEYS) =>
    /\ Len(sent) <= 1
    /\ \A i \in 1..Len(sent) :
         /\ sent[i].keys = UserKeyTokens
         /\ sent[i].pane = PaneOf(args[2])
    /\ det \in {"Watching", "Settled", "TimedOut"} => Len(sent) = 1 /\ sent[1].ok

\* keys a -- -- : one "--" is removed and the other is sent.
C9_Witness ==
  /\ args = <<CMD_KEYS, SESSION_A, TOK_SEP, TOK_SEP>>
  /\ Exited /\ sent = <<SendCallTo(PaneOf(SESSION_A), <<TOK_SEP>>, TRUE)>>

(***************************************************************************)
(* C10.  run sends the text, then the submit.                              *)
(***************************************************************************)
\* C10: run sends the built command line as literal text first; the submit is
\* a separate send, made after it, at most once, and only if the literal send
\* succeeded; once the literal send has succeeded the submit is made exactly
\* once before the invocation ends.
C10_RunTextThenSubmit ==
  (args[1] = CMD_RUN) =>
    /\ Len(sent) <= 2
    /\ Len(sent) >= 1 =>
         sent[1] = SendCallTo(PaneOf(args[2]), <<TOK_LITERAL, commandText>>, sent[1].ok)
    /\ Len(sent) = 2 =>
         /\ sent[1].ok
         /\ sent[2] = SendCallTo(PaneOf(args[2]), <<KEY_SUBMIT>>, sent[2].ok)
    /\ (Len(sent) >= 1 /\ ~sent[1].ok) => (Len(sent) = 1 /\ exitCode = EXIT_FAIL)
    /\ (Exited /\ Len(sent) >= 1 /\ sent[1].ok) => Len(sent) = 2
    /\ det \in {"Watching", "Settled", "TimedOut"} =>
         Len(sent) = 2 /\ sent[1].ok /\ sent[2].ok

\* A run whose text and submit were both sent, in that order.
C10_Witness ==
  /\ args[1] = CMD_RUN /\ Exited /\ WatchEnded
  /\ Len(sent) = 2 /\ sent[1].keys[1] = TOK_LITERAL /\ sent[2].keys = <<KEY_SUBMIT>>

(***************************************************************************)
(* C11.  The command line run builds.                                      *)
(***************************************************************************)
IsShellBlank(c) == c = SP \/ c = NL

RECURSIVE ShellScan(_, _, _, _, _)
\* The words a POSIX shell splits str into: mode is the quoting in force
\* ("none", "single", "double"), cur the word being read, inWord whether a
\* word has begun, acc the words read so far.
ShellScan(str, mode, cur, inWord, acc) ==
  IF str = <<>> THEN (IF inWord THEN Append(acc, cur) ELSE acc)
  ELSE LET c == Head(str)
           rest == Tail(str)
       IN IF mode = "single"
          THEN IF c = SQ THEN ShellScan(rest, "none", cur, TRUE, acc)
               ELSE ShellScan(rest, "single", Append(cur, c), TRUE, acc)
          ELSE IF mode = "double"
          THEN IF c = DQ THEN ShellScan(rest, "none", cur, TRUE, acc)
               ELSE IF c = BACKSLASH /\ rest # <<>> /\ Head(rest) \in {DQ, BACKSLASH}
               THEN ShellScan(Tail(rest), "double", Append(cur, Head(rest)), TRUE, acc)
               ELSE ShellScan(rest, "double", Append(cur, c), TRUE, acc)
          ELSE IF IsShellBlank(c)
          THEN (IF inWord THEN ShellScan(rest, "none", <<>>, FALSE, Append(acc, cur))
                ELSE ShellScan(rest, "none", <<>>, FALSE, acc))
          ELSE IF c = SQ THEN ShellScan(rest, "single", cur, TRUE, acc)
          ELSE IF c = DQ THEN ShellScan(rest, "double", cur, TRUE, acc)
          ELSE IF c = BACKSLASH /\ rest # <<>>
          THEN ShellScan(Tail(rest), "none", Append(cur, Head(rest)), TRUE, acc)
          ELSE ShellScan(rest, "none", Append(cur, c), TRUE, acc)

ShellWords(str) == ShellScan(str, "none", <<>>, FALSE, <<>>)

\* The text run has sent as literal keys.
SentText == sent[1].keys[2]

\* C11: the command line run sends is its single argument unchanged when there
\* is exactly one; otherwise it begins and ends with a single quote and a shell
\* splits it into exactly the arguments given, in order.
C11_BuiltCommandLine ==
  (args[1] = CMD_RUN /\ sent # <<>>) =>
    /\ sent[1].keys[1] = TOK_LITERAL
    /\ Len(commandArgs) = 1 => SentText = commandArgs[1]
    /\ Len(commandArgs) > 1 =>
         /\ ShellWords(SentText) = commandArgs
         /\ Head(SentText) = SQ /\ SentText[Len(SentText)] = SQ

\* Two arguments with a single quote and a space inside them, sent quoted.
C11_Witness ==
  /\ args[1] = CMD_RUN /\ sent # <<>>
  /\ commandArgs = << <<"a", SQ, "a">>, <<"a", SP, "a">> >>
  /\ ShellWords(SentText) = commandArgs

(***************************************************************************)
(* C12.  tail is one capture, printed.                                     *)
(***************************************************************************)
\* A tail invocation whose arguments are a session name and then pairs of
\* -l/--lines and a positive count.
TailAccepted == args[1] = CMD_TAIL /\ ~HelpRequested /\ tailParse.end = "done"
\* The count asked for: the one of the last pair, 10 when there is none.
RequestedLines == IF Len(args) > 2 THEN parseInt(args[Len(args)]).value ELSE 10
\* The calls of command cmd in the call log.
CallsOf(cmd) == SelectSeq(calls, LAMBDA c : c.cmd = cmd)
\* The session list was read and the name given was found in it (how a name
\* is looked up in the list is the matter of C14).
SessionFound ==
  /\ CallsOf(CALL_LIST_SESSIONS) # <<>>
  /\ CallsOf(CALL_LIST_SESSIONS)[1].ok
  /\ findSessionByName(getSessions(listSessionsOutput(liveSessions)), args[2])
PaneResolved == paneId # <<>>
\* The last n lines of the pane as one text, without the white space at its end.
LastLinesText(n) ==
  TrimEnd(Concat([i \in 1..Len(paneLines) |->
                    IF i > Len(paneLines) - n THEN paneLines[i] \o <<NL>> ELSE <<>>]))
\* What tail prints around the text it captured.
TailFrame(text) ==
  <<Log(runHeader(args[2]))>> \o (IF text = <<>> THEN <<>> ELSE <<Log(text)>>)
  \o <<Log(runFooter(args[2]))>>
\* tail has sent nothing, has not read the foreground command, has not entered
\* the settle detector and has diffed nothing.
TailOnlyReads ==
  /\ sent = <<>> /\ CallsOf(CALL_SEND_KEYS) = <<>>
  /\ CallsOf(CALL_CURRENT_COMMAND) = <<>>
  /\ det = "None" /\ pc \notin {"poll", "sleep", "captureBefore", "captureAfter"}
  /\ diffOutput = <<>> /\ beforePane = <<>> /\ afterPane = <<>>
  /\ Len(CallsOf(CALL_CAPTURE)) <= 1
\* The one capture made, from the requested start, and what is printed for it.
TailCapturedAndPrinted ==
  /\ CallsOf(CALL_CAPTURE) = <<Call(CALL_CAPTURE, <<"-">> \o FormatInt(RequestedLines),
                                    CallsOf(CALL_CAPTURE)[1].ok)>>
  /\ out = TailFrame(IF CallsOf(CALL_CAPTURE)[1].ok THEN LastLinesText(RequestedLines)
                     ELSE <<>>)

\* C12, as claimed: tail makes one capture from the requested line count and
\* prints it, sends nothing, never reads the foreground command, never diffs,
\* and exits 0 when the session is found and 1 when it is not.
C12_Original ==
  TailAccepted =>
    /\ TailOnlyReads
    /\ Exited =>
         IF SessionFound THEN exitCode = EXIT_OK /\ TailCapturedAndPrinted
         ELSE exitCode = EXIT_FAIL /\ CallsOf(CALL_CAPTURE) = <<>>

\* C12, amended: as claimed, except that tail exits 0 when the session is found
\* and its active pane is resolved; when the session is found and the pane
\* cannot be resolved it captures nothing, prints that the pane could not be
\* resolved and exits 1, as it does when the session is not found.
C12_TailOneCapture ==
  TailAccepted =>
    /\ TailOnlyReads
    /\ Exited =>
         IF SessionFound /\ PaneResolved THEN exitCode = EXIT_OK /\ TailCapturedAndPrinted
         ELSE /\ exitCode = EXIT_FAIL /\ CallsOf(CALL_CAPTURE) = <<>>
              /\ out = <<Log((IF SessionFound THEN MSG_NO_PANE ELSE MSG_NOT_FOUND)
                              \o args[2])>>

\* tail a -l 2 in front of a pane of three lines: the last two are printed,
\* without the space that ends the last one.
C12_Witness ==
  /\ args = <<CMD_TAIL, SESSION_A, TOK_L, <<"2">>>> /\ Exited /\ exitCode = EXIT_OK
  /\ paneLines = <<LINE_TEXT, <<"b">>, <<"c", SP>>>>
  /\ out = TailFrame(<<"b", NL, "c">>)

(***************************************************************************)
(* C13.  tail twice.                                                       *)
(***************************************************************************)
\* A second tail invocation has ended, nothing was written to the pane since
\* the first one captured it, and tmux answered the same commands the same way.
TailRepeatedQuietly ==
  /\ args[1] = CMD_TAIL /\ prev # <<>> /\ Exited
  /\ paneLines = prev.pane /\ writes = prev.writes
  /\ calls = prev.calls

NoSuchSession ==
  /\ args[1] \in {CMD_RUN, CMD_TAIL, CMD_KEYS}
  /\ pc \notin {"start", "getSessions"}
  /\ sessionName # <<>>
  /\ sessionName \notin liveSessions

\* C14, as claimed: when no live session has exactly the name given, run, tail
\* and keys print "Session not found: <name>" and exit 1 as soon as the session
\* list has been read, once; no pane is resolved, nothing is captured and
\* nothing is sent.
C14_Original ==
  NoSuchSession =>
    /\ Exited /\ exitCode = EXIT_FAIL
    /\ out = <<Log(MSG_NOT_FOUND \o args[2])>>
    /\ Len(CallsOf(CALL_LIST_SESSIONS)) = 1
    /\ \A i \in 1..Len(calls) : calls[i].cmd \in {CALL_CURRENT_SESSION, CALL_LIST_SESSIONS}
    /\ paneId = <<>> /\ sent = <<>> /\ det = "None"

(***************************************************************************)
(* C15.  Malformed arguments.                                              *)
(***************************************************************************)
\* The arguments after the command and the session name.
AfterName == SubSeq(args, 3, Len(args))
\* A count tail accepts: not empty, an integer to parseInt, and positive.
ValidCount(v) == v # <<>> /\ ~parseInt(v).nan /\ parseInt(v).value >= 1
\* A count that is there and is not a positive integer.
BadCount(v) == v # <<>> /\ ~ValidCount(v)
IsLinesFlag(v) == v = TOK_L \/ v = TOK_LINES
\* run needs a session name, then "--", then a command.
RunWellFormed == Len(args) >= 4 /\ args[2] # TOK_SEP /\ args[3] = TOK_SEP
\* keys needs a session name and a key token after at most one "--".
KeysWellFormed == Len(args) >= 3 /\ UserKeyTokens # <<>>
\* tail needs a session name, then pairs of -l/--lines and a positive count.
TailWellFormed ==
  /\ Len(args) >= 2
  /\ Len(AfterName) % 2 = 0
  /\ \A k \in 1..(Len(AfterName) \div 2) :
       IsLinesFlag(AfterName[2 * k - 1]) /\ ValidCount(AfterName[2 * k])
WellFormed ==
  IF args[1] = CMD_RUN THEN RunWellFormed
  ELSE IF args[1] = CMD_KEYS THEN KeysWellFormed
  ELSE TailWellFormed
\* The first pair of tail that is wrong is wrong by its count: the pairs before
\* it are right, its flag is a flag and its count is there.
TailFirstErrorIsCount ==
  \E k \in 1..(Len(AfterName) \div 2) :
    /\ \A j \in 1..(k - 1) : IsLinesFlag(AfterName[2 * j - 1]) /\ ValidCount(AfterName[2 * j])
    /\ IsLinesFlag(AfterName[2 * k - 1]) /\ BadCount(AfterName[2 * k])
\* run, tail or keys has looked at its arguments, none of them a help flag.
ArgumentsChecked ==
  /\ args[1] \in {CMD_RUN, CMD_TAIL, CMD_KEYS}
  /\ ~HelpRequested
  /\ pc # "start"

\* C15, as claimed: malformed arguments of run, tail or keys make the command
\* print its usage text and exit 1 with no external call made.
C15_Original ==
  (ArgumentsChecked /\ ~WellFormed) =>
    /\ Exited /\ exitCode = EXIT_FAIL
    /\ out = printCommandHelp(args[1])
    /\ calls = <<>> /\ sent = <<>>

\* C15, amended: malformed arguments of run, tail or keys make the command
\* exit 1 with no external call made, after printing its usage text, or,
\* when what is wrong first is a line count of tail that is not a positive
\* integer, the line "Line count must be a positive integer" instead; well-formed
\* arguments are accepted and the session list is read.
C15_MalformedArguments ==
  ArgumentsChecked =>
    IF WellFormed THEN pc = "getSessions" \/ calls # <<>>
    ELSE /\ Exited /\ exitCode = EXIT_FAIL
         /\ calls = <<>> /\ sent = <<>>
         /\ out = IF args[1] = CMD_TAIL /\ TailFirstErrorIsCount
                  THEN <<Log(MSG_LINE_COUNT)>>
                  ELSE printCommandHelp(args[1])

\* tail a x -l: the unknown argument comes first, and the usage is printed.
C15_Witness ==
  /\ args = <<CMD_TAIL, SESSION_A, <<"x">>, TOK_L>>
  /\ Exited /\ exitCode = EXIT_FAIL /\ calls = <<>>
  /\ out = printCommandHelp(CMD_TAIL)

(***************************************************************************)
(* C16.  The frame around the output of run and keys.                      *)
(***************************************************************************)
\* text begins with prefix.
StartsWith(text, prefix) ==
  Len(text) >= Len(prefix) /\ SubSeq(text, 1, Len(prefix)) = prefix
\* The positions of out where a line beginning with prefix was printed.
LinesStarting(prefix) ==
  {i \in 1..Len(out) : out[i].kind = "log" /\ StartsWith(out[i].text, prefix)}
HeaderPrefix == <<"t", "m", "m", SP, "-", SP>> \o sessionName
FooterPrefix == <<"E", "N", "D", SP, "-", SP>> \o sessionName
\* The position of out after the advisory message, if there is one.
FrameStart == IF det = "TimedOut" THEN 2 ELSE 1

\* C16: a run or keys whose detector reached Settled or TimedOut prints, in
\* this order, the advisory timeout message exactly when the outcome is
\* TimedOut, the header line "tmm - <session> ...", the diff unless it is empty,
\* and the footer line "END - <session> ..."; nothing else is printed, and the
\* header and the footer are printed once each.
C16_OutputFraming ==
  (Exited /\ WatchEnded /\ args[1] \in {CMD_RUN, CMD_KEYS}) =>
    /\ Len(out) = FrameStart + 1 + (IF diffOutput = <<>> THEN 0 ELSE 1)
    /\ det = "TimedOut" => out[1] = Log(TIMEOUT_MESSAGE)
    /\ \A i \in 1..Len(out) : (out[i] = Log(TIMEOUT_MESSAGE)) => (det = "TimedOut" /\ i = 1)
    /\ LinesStarting(HeaderPrefix) = {FrameStart}
    /\ LinesStarting(FooterPrefix) = {Len(out)}
    /\ diffOutput # <<>> => out[FrameStart + 1] = Log(diffOutput)

\* A timed-out keys that printed all four parts.
C16_Witness ==
  /\ Exited /\ det = "TimedOut" /\ args[1] = CMD_KEYS
  /\ Len(out) = 4 /\ out[1] = Log(TIMEOUT_MESSAGE) /\ out[3] = Log(diffOutput)

(***************************************************************************)
(* C17.  Opening a session, or creating it first.                          *)
(***************************************************************************)
\* The open handler has accepted its arguments: the first is neither a named
\* command nor a help flag, one of them is a session name, and the others are
\* -p or --present.
OpenAccepted ==
  /\ ~isNamedCommand(args[1]) /\ ~isHelpFlag(args[1])
  /\ \A i \in 1..Len(args) : isPresentFlag(args[i]) \/ ~startsWithDash(args[i])
  /\ Cardinality({i \in 1..Len(args) : ~isPresentFlag(args[i])}) = 1
\* The session name among the arguments.
OpenName == args[CHOOSE i \in 1..Len(args) : ~isPresentFlag(args[i])]
WithPresent == \E i \in 1..Len(args) : isPresentFlag(args[i])
\* The calls that create a session, and those that open one.
CreateCalls == CallsOf(CALL_NEW_SESSION)
OpenCalls == SelectSeq(calls, LAMBDA c : c.cmd \in {CALL_ATTACH, CALL_SWITCH_CLIENT})
\* The sessions that were live when the invocation started.
LiveAtStart ==
  IF CreateCalls # <<>> /\ CreateCalls[1].ok THEN liveSessions \ {CreateCalls[1].arg}
  ELSE liveSessions
\* The position of the first call of one of the commands cmds in the call log.
FirstCall(cmds) == CHOOSE i \in 1..Len(calls) :
                     calls[i].cmd \in cmds /\ \A j \in 1..(i - 1) : calls[j].cmd \notin cmds
ListReadOk == CallsOf(CALL_LIST_SESSIONS) # <<>> /\ CallsOf(CALL_LIST_SESSIONS)[1].ok

\* C17, as claimed: with -p or --present the session is opened and none is
\* created if a session with exactly that name exists; if none exists the
\* session is created and then opened, the creation strictly first; without
\* the flag a missing session gives "Session not found", exit 1, and no session
\* is created.
C17_Original ==
  (OpenAccepted /\ Exited) =>
    /\ Len(CreateCalls) <= 1 /\ Len(OpenCalls) <= 1
    /\ (WithPresent /\ OpenName \in LiveAtStart /\ ListReadOk) =>
         /\ CreateCalls = <<>> /\ liveSessions = LiveAtStart
         /\ Len(OpenCalls) = 1 /\ OpenCalls[1].arg = OpenName
    /\ (WithPresent /\ OpenName \notin LiveAtStart) =>
         /\ Len(CreateCalls) = 1 /\ CreateCalls[1].arg = OpenName
         /\ CreateCalls[1].ok =>
              /\ liveSessions = LiveAtStart \cup {OpenName}
              /\ Len(OpenCalls) = 1 /\ OpenCalls[1].arg = OpenName
              /\ FirstCall({CALL_NEW_SESSION}) < FirstCall({CALL_ATTACH, CALL_SWITCH_CLIENT})
         /\ ~CreateCalls[1].ok => OpenCalls = <<>>
    /\ (~WithPresent /\ OpenName \notin LiveAtStart) =>
         /\ out = <<Log(MSG_NOT_FOUND \o OpenName)>> /\ exitCode = EXIT_FAIL
         /\ CreateCalls = <<>> /\ OpenCalls = <<>> /\ liveSessions = LiveAtStart

(***************************************************************************)
(* The stability timer and the grace period                                *)
(***************************************************************************)
\* The stability timer is running, and the time it was started.
TimerRunning == lastShellSeenAt # 0
TimerStart == lastShellSeenAt
\* The last poll read the baseline command.
LastPollBaseline == baselineSince # 0

\* C18: the detector is Settled only if every poll since the stability timer
\* was started read the baseline command and at least stableMs passed between
\* that start and the settling poll; a poll that reads another command leaves
\* no timer running, so a running timer never started before the unbroken run
\* of baseline reads it belongs to.
C18_StabilityTimer ==
  /\ TimerRunning => (LastPollBaseline /\ baselineSince <= TimerStart)
  /\ (sawBaseline /\ ~LastPollBaseline) => ~TimerRunning
  /\ det = "Settled" =>
       /\ TimerRunning /\ LastPollBaseline
       /\ endedAt - TimerStart >= stableMs
C18_Witness ==
  /\ Exited /\ det = "Settled" /\ sawDeviation
  /\ TimerStart >= startedAt + 2 * pollMs

\* C19: after a poll that read the baseline while no poll had read another
\* command and less than graceMs had passed since the watch began, the loop
\* sleeps with no timer running; once some poll has read another command, the
\* timer runs from the first baseline read of the current unbroken run, the
\* grace period notwithstanding.
C19_GracePeriod ==
  /\ (pc = "sleep" /\ LastPollBaseline /\ ~sawDeviation /\ now - startedAt < graceMs) =>
       (~TimerRunning /\ det = "Watching")
  /\ (sawDeviation /\ LastPollBaseline) =>
       (TimerRunning /\ TimerStart = baselineSince)
C19_Witness ==
  /\ pc = "sleep" /\ sawDeviation /\ LastPollBaseline
  /\ TimerStart = now /\ now - startedAt < graceMs

\* C20, as claimed: the deadline and the start of the grace period are the
\* time the mutating action began, so that no poll is started later than
\* timeoutMs after it.
C20_Original ==
  /\ det \in {"Watching", "Settled", "TimedOut"} =>
       (startedAt = actionBeganAt /\ deadline = actionBeganAt + timeoutMs)
  /\ pc = "poll" => now <= actionBeganAt + timeoutMs

(***************************************************************************)
(* The order of the steps of executeAndPrintPaneDiff                       *)
(***************************************************************************)
RunOrKeys == args # <<>> /\ args[1] \in {CMD_RUN, CMD_KEYS}
\* The sends the caller's action consists of, all of them succeeding.
FullAction ==
  IF args[1] = CMD_RUN
  THEN <<SendCallTo(PaneOf(args[2]), <<TOK_LITERAL, commandText>>, TRUE),
         SendCallTo(PaneOf(args[2]), <<KEY_SUBMIT>>, TRUE)>>
  ELSE <<SendCallTo(PaneOf(args[2]), keyTokens, TRUE)>>
\* The positions in the call log of the calls of one command.
PositionsOf(cmd) == {i \in 1..Len(calls) : calls[i].cmd = cmd}
PollHappened == sawBaseline \/ sawDeviation
WatchBegun == det \in {"Watching", "Settled", "TimedOut"}

\* C21: in a run or keys invocation every send comes after the before capture
\* and the baseline read, in that order; the sends are the action's sends in
\* their order, each at most once, none after a failed one; the watch loop
\* polls only when all of them have been issued and succeeded; and a second
\* capture is made only when the loop has ended.
C21_Sequencing ==
  RunOrKeys =>
    /\ \A k \in PositionsOf(CALL_SEND_KEYS) :
         \E i \in PositionsOf(CALL_CAPTURE), j \in PositionsOf(CALL_CURRENT_COMMAND) :
           i < j /\ j < k
    /\ Len(sent) <= Len(FullAction)
    /\ \A i \in 1..Len(sent) :
         /\ sent[i].keys = FullAction[i].keys /\ sent[i].pane = FullAction[i].pane
         /\ i < Len(sent) => sent[i].ok
    /\ Len(CallsOf(CALL_SEND_KEYS)) = Len(sent)
    /\ (pc \in {"poll", "sleep", "captureAfter"} \/ PollHappened \/ WatchBegun) =>
         sent = FullAction
    /\ pc \in {"poll", "sleep"} => det = "Watching"
    /\ Len(CallsOf(CALL_CAPTURE)) <= 2
    /\ Len(CallsOf(CALL_CAPTURE)) = 2 => (WatchEnded /\ Exited)
    /\ (afterPane # <<>> \/ snapAfter # <<>>) => (WatchEnded /\ Exited)
C21_Witness ==
  /\ Exited /\ args[1] = CMD_RUN /\ det = "Settled" /\ sawDeviation
  /\ Len(sent) = 2 /\ Len(CallsOf(CALL_CAPTURE)) = 2 /\ snapAfter # <<>>

(***************************************************************************)
(* Failures of the calls made on the pane                                  *)
(***************************************************************************)
\* A capture, a read of the foreground command or a send failed.
FailedCalls ==
  SelectSeq(calls, LAMBDA c : c.cmd \in {CALL_CAPTURE, CALL_CURRENT_COMMAND, CALL_SEND_KEYS}
                              /\ ~c.ok)
AccessFailed == FailedCalls # <<>> \/ pollFailed

\* C22, as claimed: a run or keys invocation in which a capture, a read of the
\* foreground command (for the baseline or in a poll) or a send failed makes
\* no further call on the pane, prints one line and exits 1.
C22_Original ==
  (RunOrKeys /\ AccessFailed) =>
    /\ Exited /\ exitCode = EXIT_FAIL /\ Len(out) = 1 /\ out[1].kind = "log"
    /\ Len(FailedCalls) + (IF pollFailed THEN 1 ELSE 0) = 1
    /\ pollFailed \/ ~calls[Len(calls)].ok

\* The sends that reached the pane.
Injected == SelectSeq(sent, LAMBDA c : c.ok)

\* C23, as claimed: a run or keys invocation that exits 1 because a send
\* failed has injected nothing into the pane.
C23_Original ==
  (RunOrKeys /\ Exited /\ SendFailed) => (exitCode = EXIT_FAIL /\ Injected = <<>>)

(***************************************************************************)
(* Two invocations at once                                                 *)
(***************************************************************************)
\* Everything but the other invocation and the second session's pane.
ownVars == <<args, liveSessions, paneLines, fg, writes, now, pc, sessionName, paneId,
             detVars, out, exitCode, sent, calls, attached, inTmux, prev>>
DifferentSessions == peer.session # args[2]
SameSession == peer.session = args[2]
\* The other invocation's input is among the new lines reported.
ReportsPeerInput ==
  \E i \in 1..Len(splitLines(diffOutput)) : splitLines(diffOutput)[i] = PEER_LINE
\* What the invocation ends with in front of a pane nobody else touches, when
\* none of its calls fails: settled, nothing new.
OutcomeAlone == det = "Settled" /\ ~timedOut /\ diffOutput = <<>> /\ exitCode = EXIT_OK
FinishedCleanly == Exited /\ WatchEnded /\ ~AccessFailed

\* C24: when the other invocation targets another session, the invocation
\* resolves, reads and sends to its own pane only; no step of the other
\* invocation changes anything the invocation holds or can read, and no step
\* of the invocation changes the other session's pane; its outcome is the one
\* it has alone: nothing of the other's input is reported and, its calls
\* succeeding, it settles with no new lines.
C24_DifferentSessions ==
  /\ [](DifferentSessions =>
          /\ paneId \in {<<>>, PaneOf(args[2])}
          /\ \A i \in 1..Len(sent) : sent[i].pane = PaneOf(args[2])
          /\ snapBefore \in {<<>>, paneLines} /\ snapAfter \in {<<>>, paneLines}
          /\ ~ReportsPeerInput
          /\ FinishedCleanly => OutcomeAlone)
  /\ [][(DifferentSessions /\ peer' # peer) => UNCHANGED ownVars]_vars
  /\ [][(DifferentSessions /\ peer' = peer) => UNCHANGED otherPane]_vars
C24_Witness ==
  /\ DifferentSessions /\ FinishedCleanly /\ OutcomeAlone
  /\ peer.sends = MaxPeerSends /\ peer.running
  /\ otherPane.fg = FG_PROGRAM /\ otherPane.lines # <<LINE_TEXT>>

\* C25: when the other invocation targets the same session, nothing holds
\* its sends back while the invocation runs; what it typed before the after
\* capture is in the after snapshot; and only if it never sent is the
\* invocation sure to end as it does alone.
C25_NotSynchronized ==
  SameSession =>
    /\ (pc # "exit" /\ peer.sends < MaxPeerSends) => ENABLED PeerSend
    /\ (FinishedCleanly /\ peer.sends = 0) => OutcomeAlone
    /\ FinishedCleanly => snapAfter = paneLines
\* The invocation, none of whose calls failed, timed out on the program the
\* other invocation started and reports the other's input as new lines.
C25_Witness ==
  /\ SameSession /\ FinishedCleanly
  /\ det = "TimedOut" /\ exitCode = EXIT_TIMEOUT
  /\ ReportsPeerInput

(***************************************************************************)
(* The baseline, the deadline and the earliest settle                      *)
(***************************************************************************)
\* C26: the baseline is the command read just before the action, whatever it
\* is, the empty string if the read failed; while no poll has read it, every
\* poll counted as a change and no timer runs, and a watch that ends so ends
\* TimedOut with exit code 124.
C26_BaselineAsRead ==
  /\ [][(pc = "readBaseline" /\ pc' # "readBaseline") =>
          shellCommand' \in {PaneCommand(paneId), <<>>}]_vars
  /\ []((PollHappened /\ ~sawBaseline) =>
          (changedFromShell /\ lastShellSeenAt = 0 /\ det # "Settled"))
  /\ []((WatchEnded /\ ~sawBaseline) =>
          (det = "TimedOut" /\ timedOut /\ (Exited => exitCode = EXIT_TIMEOUT)))
\* keys a C-c with a program in the foreground when the baseline was read:
\* every poll read the shell, and the invocation timed out.
C26_Witness ==
  /\ Exited /\ args[1] = CMD_KEYS /\ ~AccessFailed
  /\ shellCommand = FG_PROGRAM /\ fg = FG_SHELL
  /\ PollHappened /\ ~sawBaseline
  /\ det = "TimedOut" /\ exitCode = EXIT_TIMEOUT

\* The longest a read of the foreground command takes in the slow watch loop.
MaxReadMs == (MaxLatencyTicks + 1) * pollMs
\* The watch ended TimedOut although the last poll read the baseline and the
\* stability timer had run for the stability window.
TimedOutWhileStable ==
  /\ det = "TimedOut" /\ LastPollBaseline /\ TimerRunning
  /\ endedAt - TimerStart >= stableMs
\* The deadline is tested when a poll would begin, and only then: a sleep that
\* ends at or after the deadline ends the watch TimedOut, and the watch settles
\* only in a poll begun before the deadline.
DeadlineBeforePoll ==
  /\ [](pc = "poll" => now < deadline)
  /\ [][(pc = "sleep" /\ pc' # "sleep" /\ now' >= deadline) => det' = "TimedOut"]_vars
  /\ [][(det # "Settled" /\ det' = "Settled") => (pc = "poll" /\ now < deadline)]_vars

\* C27, as claimed: the deadline test comes before each poll, and a watch
\* whose stability timer started later than timeoutMs - stableMs after polling
\* began never settles.
C27_Original ==
  /\ DeadlineBeforePoll
  /\ [](det = "Settled" => TimerStart - startedAt <= timeoutMs - stableMs)

\* C27: the deadline test comes before each poll and not after it, so a poll
\* begun before the deadline may settle after it; a watch never settles when
\* its stability timer started later than timeoutMs - stableMs plus the time
\* one read of the foreground command takes.
C27_DeadlineFirst ==
  /\ DeadlineBeforePoll
  /\ [](det = "Settled" =>
          /\ endedAt < deadline + MaxReadMs
          /\ TimerStart - startedAt < timeoutMs - stableMs + MaxReadMs)
C27_Witness == Exited /\ TimedOutWhileStable /\ exitCode = EXIT_TIMEOUT

\* C28: the detector is Settled no earlier than stableMs after the poll that
\* started the stability timer; when no poll has read a command other than
\* the baseline the timer starts no earlier than graceMs after the watch
\* began, and the detector is Settled no earlier than graceMs + stableMs after
\* it, never at the end of the grace period.
C28_EarliestSettle ==
  /\ det = "Settled" => endedAt - TimerStart >= stableMs
  /\ (~sawDeviation /\ TimerRunning) => TimerStart - startedAt >= graceMs
  /\ (det = "Settled" /\ ~sawDeviation) => endedAt - startedAt >= graceMs + stableMs
C28_Witness ==
  /\ Exited /\ det = "Settled" /\ ~sawDeviation
  /\ endedAt - startedAt <= graceMs + stableMs + pollMs

(***************************************************************************)
(* Help before everything else                                             *)
(***************************************************************************)
\* A help flag stands behind the "--" separator.
HelpAfterSeparator ==
  \E i \in 3..Len(args) : isHelpFlag(args[i]) /\ \E j \in 2..(i - 1) : args[j] = TOK_SEP

AfterIsPrefix ==
  /\ Len(snapAfter) <= Len(snapBefore)
  /\ SubSeq(snapBefore, 1, Len(snapAfter)) = snapAfter

\* C30: when the after snapshot is the beginning of the before snapshot the
\* differ returns nothing, also when the two differ; when the before capture
\* is empty it returns all the lines of the after snapshot without the blank
\* lines at their end and without the white space at the end of the last line
\* left.
C30_ShrunkAndEmptyBefore ==
  Exited =>
    /\ AfterIsPrefix => diffOutput = <<>>
    /\ beforePane = <<>> => ReportedLines = TrimTrailingLines(snapAfter)
\* A pane of three lines that lost its last line: nothing is reported.
C30_Witness ==
  /\ Exited /\ AfterIsPrefix /\ Len(snapBefore) = 3 /\ Len(snapAfter) = 2
  /\ ~IsBlankLine(snapBefore[3]) /\ diffOutput = <<>>

====
